---- MODULE Spec2Model ----
(***************************************************************************)
(* A model of the grift-tracker ingestion pipeline: the House PDF fetcher  *)
(* (PDFProcessor.download_pdf), the single-filing worker                   *)
(* (process_single_filing), the batch orchestrator (process_filing_batch), *)
(* the row normalizer (_parse_trade_row) and the event mapper              *)
(* (normalization.py).                                                     *)
(***************************************************************************)
EXTENDS Integers, Sequences, FiniteSets, Bags, TLC

(***************************************************************************)
(* Program constants (class Config of house/ingest.py).                    *)
(***************************************************************************)
MAX_RETRIES == 3
MAX_WORKERS == 5
RATE_LIMIT_DELAY == 1

(***************************************************************************)
(* Bounds of the model.                                                    *)
(***************************************************************************)
MaxRows == 2        \* rows a document yields at most
NumFilings == 6     \* filings in a batch at most (more than MAX_WORKERS)
MaxLineNo == 1      \* largest row index
MaxEvents == 3      \* events handed to collect_company_records at most
MaxIndex == 2
MaxCalls == 2
MaxResults == 2
MaxReportTypes == 2       \* filings handed to filter_filings at most
HexLen == 2         \* characters of a digest (16 in the program)

NoDate == -1        \* Python None for an optional date
DATE_MIN == 1       \* dt.date(1990, 1, 1) on the model's day axis
TODAY == 2          \* dt.date.today() on the model's day axis
Dates == 0..(TODAY + 1)   \* 0 is before 1990-01-01, TODAY + 1 is in the future

DocIds == {"d1", "d2"}
FilingTypes == {"P", "C"}
Blobs == {"bytes", "empty"}      \* a PDF body, or a 200 answer with an empty body
\* What one requests.get can do: answer 200 with a body, 200 with no body,
\* 404, or fail otherwise ("err": another error status, on which
\* raise_for_status raises, or a timeout or connection error raised by get).
Responses == {"ok", "ok_empty", "404", "err"}

VARIABLES
    \* ---- one worker: process_single_filing and the download_pdf calls it makes
    cache_dir,      \* PDFProcessor.cache_dir is set
    cache,          \* the cache directory: doc id -> "absent" or the blob stored
    doc_id,         \* filing.doc_id
    filing_type,    \* filing.filing_type
    since_date,     \* since_date argument, NoDate for None
    pc,             \* position of the worker
    dcall,          \* which download_pdf call of process_single_filing (1 or 2)
    url,            \* folder of the url argument of the current download_pdf frame
    retry_count,    \* retry_count argument of the current download_pdf frame
    pdf_bytes,      \* value returned by the download_pdf call ("pending" before)
    log,            \* history: requests issued and sleeps taken, in order
    cache0,         \* history: the cache directory when the current download_pdf call began
    valid_trades,   \* what process_single_filing returned
    \* ---- process_filing_batch: the pool, its futures and the collecting loop
    download_and_parse,  \* the flag argument
    nfilings,       \* len(filings); the filings are 1..nfilings in list order
    batch_pc,       \* position of the caller's thread
    status,         \* each future: "new", "queued", "running", "finished"
    outcome,        \* each finished future: its result or its exception
    yielded,        \* futures as_completed has handed out
    consumed,       \* history: how often the loop body ran for each future
    all_trades,     \* the list all_trades
    errors,         \* history: filings logged as failed by the except branch
    \* ---- _parse_trade_row, invoked twice on one row
    row,            \* the raw row: its cells
    line_no,        \* the row's index in the document
    same_process,   \* both invocations happen in one run of the program
    hash_order,     \* per invocation: the iteration order of the set Config.TRADE_ACTIONS
    res,            \* per invocation: what _parse_trade_row returned
    \* ---- the event mappers, applied to two trades
    src_trade,      \* per mapping: the chamber and the trade handed to the mapper
    event,          \* per mapping: the TransactionEvent built
    \* ---- trigger_ingestion (app.py): one invocation of the pipeline
    params_ok,      \* the since / until parameters are ISO dates or absent
    client_configured,  \* supabase_client is not None
    bundle,         \* what the filing index at xml_url is
    ntrades,        \* len of what process_filing_batch returns for this index
    ncompanies,     \* len(collect_company_records(events))
    ingest_pc,      \* position of the handler
    found,          \* len(trades), -1 before _run_ingestion returned
    offset,         \* rows of the current upsert already sent
    inserted,       \* the counter `inserted`
    store_events,   \* the store: this invocation's events in transaction_event
    store_companies,    \* the store: this invocation's rows in company
    response,       \* the response of the handler
    failure,        \* history: what failed in this invocation
    \* ---- parse_amount_bucket, applied to two amount texts
    amount_text,     \* per call: the amount text
    bucketed,       \* per call: what parse_amount_bucket returned
    \* ---- parse_date, applied to one date text
    date_text,      \* the text, as the fields its digits spell
    parsed,         \* what parse_date returned
    \* ---- canonicalize_transaction_type, applied to one text
    raw_value,      \* the text, as the sequence of its characters
    canonical,      \* what canonicalize_transaction_type returned
    \* ---- collect_company_records: the loop over the events
    events,         \* the events argument: ticker and company_name of each ("" is None)
    ev_idx,         \* index of the event the loop is at
    companies,      \* the dict `companies`, as its records in insertion order
    company_rows,   \* what collect_company_records returned
    \* ---- filter_filings: the loop over the filings
    index,          \* the filings argument
    criteria,       \* the arguments since, until, names, filing_types, states
    fl_idx,         \* index of the filing the loop is at
    filtered,       \* the list `filtered`
    index0,         \* history: the filings argument at the call
    \* ---- classify_asset_type, applied to one asset
    asset_args,          \* the arguments asset_str and ticker, as character sequences
    asset_type,     \* what classify_asset_type returned
    \* ---- parse_pdf_for_trades on one document
    pdf_type,       \* what classify_pdf returned for the document
    extracted,      \* the rows each extraction strategy returns for the document
    parse_pc,       \* where parse_pdf_for_trades is
    invoked,        \* history: the strategies called so far, in call order
    raw_rows,       \* the local raw_rows
    fed,            \* history: the (idx, row) pairs passed to _parse_trade_row
    \* ---- classify_pdf, called by two workers of one PDFProcessor
    classification_cache,   \* PDFProcessor._classification_cache
    cl_doc,         \* each worker's doc_id
    cl_bytes,       \* each worker's pdf_bytes
    cl_pc,          \* where each worker's call is
    classification, \* each worker's local classification
    cl_calls,       \* the calls each worker has made
    cl_log,         \* history: the calls, cache writes and returns, in order
    \* ---- process_senator of the Senate scraper
    sen_pc,         \* where process_senator is
    report_types,   \* the number of report types to search for
    report_idx,     \* the report types done
    sen_filings,    \* len(filings) of the running or finished search
    next_page_url,  \* the results page at hand links to a next page
    sen_idx,        \* the filings of the search handled so far
    net_log,        \* history: the requests and the sleeps, in order
    \* ---- one House row from the normalizer to its event
    house_row,      \* the raw row
    set_order,      \* the iteration order of TRADE_ACTIONS in the process
    house_trade,    \* what _parse_trade_row returned for the row
    house_event     \* the event built from the Trade

fvars == <<cache_dir, cache, doc_id, filing_type, since_date, pc, dcall, url,
           retry_count, pdf_bytes, log, cache0, valid_trades>>

bvars == <<download_and_parse, nfilings, batch_pc, status, outcome, yielded,
           consumed, all_trades, errors>>

rvars == <<row, line_no, same_process, hash_order, res>>

mvars == <<src_trade, event>>

ivars == <<params_ok, client_configured, bundle, ntrades, ncompanies, ingest_pc,
           found, offset, inserted, store_events, store_companies, response,
           failure>>

avars == <<amount_text, bucketed>>

dvars == <<date_text, parsed>>

tvars == <<raw_value, canonical>>

cvars == <<events, ev_idx, companies, company_rows>>

gvars == <<index, criteria, fl_idx, filtered, index0>>

kvars == <<asset_args, asset_type>>

pvars == <<pdf_type, extracted, parse_pc, invoked, raw_rows, fed>>

qvars == <<classification_cache, cl_doc, cl_bytes, cl_pc, classification, cl_calls, cl_log>>

svars == <<sen_pc, report_types, report_idx, sen_filings, next_page_url, sen_idx, net_log>>

xvars == <<house_row, set_order, house_trade, house_event>>

vars == <<fvars, bvars, rvars, mvars, ivars, avars, dvars, tvars, cvars,
          gvars, kvars, pvars, qvars, svars, xvars>>

\* what the steps of one component leave alone
not_fvars == <<bvars, rvars, mvars, ivars, avars, dvars, tvars, cvars, gvars,
               kvars, pvars, qvars, svars, xvars>>

not_bvars == <<fvars, rvars, mvars, ivars, avars, dvars, tvars, cvars, gvars,
               kvars, pvars, qvars, svars, xvars>>

not_rvars == <<fvars, bvars, mvars, ivars, avars, dvars, tvars, cvars, gvars,
               kvars, pvars, qvars, svars, xvars>>

not_mvars == <<fvars, bvars, rvars, ivars, avars, dvars, tvars, cvars, gvars,
               kvars, pvars, qvars, svars, xvars>>

not_ivars == <<fvars, bvars, rvars, mvars, avars, dvars, tvars, cvars, gvars,
               kvars, pvars, qvars, svars, xvars>>

not_avars == <<fvars, bvars, rvars, mvars, ivars, dvars, tvars, cvars, gvars,
               kvars, pvars, qvars, svars, xvars>>

not_dvars == <<fvars, bvars, rvars, mvars, ivars, avars, tvars, cvars, gvars,
               kvars, pvars, qvars, svars, xvars>>

not_tvars == <<fvars, bvars, rvars, mvars, ivars, avars, dvars, cvars, gvars,
               kvars, pvars, qvars, svars, xvars>>

not_cvars == <<fvars, bvars, rvars, mvars, ivars, avars, dvars, tvars, gvars,
               kvars, pvars, qvars, svars, xvars>>

not_gvars == <<fvars, bvars, rvars, mvars, ivars, avars, dvars, tvars, cvars,
               kvars, pvars, qvars, svars, xvars>>

not_kvars == <<fvars, bvars, rvars, mvars, ivars, avars, dvars, tvars, cvars,
               gvars, pvars, qvars, svars, xvars>>

not_pvars == <<fvars, bvars, rvars, mvars, ivars, avars, dvars, tvars, cvars,
               gvars, kvars, qvars, svars, xvars>>

not_qvars == <<fvars, bvars, rvars, mvars, ivars, avars, dvars, tvars, cvars,
               gvars, kvars, pvars, svars, xvars>>

not_svars == <<fvars, bvars, rvars, mvars, ivars, avars, dvars, tvars, cvars,
               gvars, kvars, pvars, qvars, xvars>>

not_xvars == <<fvars, bvars, rvars, mvars, ivars, avars, dvars, tvars, cvars,
               gvars, kvars, pvars, qvars, svars>>

(***************************************************************************)
(* Filing.pdf_url / Filing.alternate_pdf_url: the folder depends on the    *)
(* filing type.                                                            *)
(***************************************************************************)
ptr_types == {"W", "C", "D"}

pdf_url(ft) == IF ft \in ptr_types THEN "ptr-pdfs" ELSE "financial-pdfs"

alternate_pdf_url(ft) == IF ft \in ptr_types THEN "financial-pdfs" ELSE "ptr-pdfs"

\* alt_url of download_pdf: url.replace(...) swaps the folder
alt_url(u) == IF u = "ptr-pdfs" THEN "financial-pdfs" ELSE "ptr-pdfs"

RECURSIVE Pow2(_)
Pow2(n) == IF n = 0 THEN 1 ELSE 2 * Pow2(n - 1)

\* time.sleep(2 ** retry_count)
backoff_delay(rc) == Pow2(rc)

\* `if not pdf_bytes`: None and b"" are both falsy
Falsy(b) == b \in {"None", "empty"}

Body(resp) == IF resp = "ok" THEN "bytes" ELSE "empty"

ReqEvent(resp) == [kind |-> "req", call |-> dcall, url |-> url,
                   retry |-> retry_count, status |-> resp]

SleepEvent == [kind |-> "sleep", call |-> dcall, url |-> url,
               retry |-> retry_count, secs |-> backoff_delay(retry_count)]

(***************************************************************************)
(* Trades a parsed document yields (Trade dataclass, validated fields).    *)
(***************************************************************************)
Trade(d, lo, hi, t, c) ==
    [date |-> d, amount_lo |-> lo, amount_hi |-> hi, ticker |-> t, company |-> c]

CandidateTrades ==
    {Trade(d, 1, 2, "AAPL", "Apple") : d \in Dates}
        \cup {Trade(TODAY, 2, 1, "AAPL", "Apple"), Trade(TODAY, 1, 2, "", "")}

RECURSIVE SeqsUpTo(_, _)
SeqsUpTo(S, n) ==
    IF n = 0 THEN {<<>>}
    ELSE LET shorter == SeqsUpTo(S, n - 1)
         IN shorter \cup {Append(s, x) : s \in shorter, x \in S}

\* mutant: a date in the future is not rejected
validate_trade_no_future_check(t) ==
    /\ ~(t.date < DATE_MIN)
    /\ ~(t.amount_lo > t.amount_hi)
    /\ (t.ticker # "" \/ t.company # "")

validate_trade(t) ==
    /\ ~(t.date > TODAY)
    /\ ~(t.date < DATE_MIN)
    /\ ~(t.amount_lo > t.amount_hi)
    /\ (t.ticker # "" \/ t.company # "")

since_filter(trades, since) ==
    IF since # NoDate
    THEN LET keep(t) == t.date >= since IN SelectSeq(trades, keep)
    ELSE trades

valid_of(trades, since) == SelectSeq(since_filter(trades, since), validate_trade)

(***************************************************************************)
(* The parts of the state a specification does not exercise stay at rest.  *)
(***************************************************************************)
Filings == 1..NumFilings

IdleBatch ==
    /\ download_and_parse = FALSE
    /\ nfilings = 0
    /\ batch_pc = "idle"
    /\ status = [f \in Filings |-> "new"]
    /\ outcome = [f \in Filings |-> [kind |-> "none", trades |-> <<>>]]
    /\ yielded = {}
    /\ consumed = [f \in Filings |-> 0]
    /\ all_trades = <<>>
    /\ errors = {}

IdleFiling ==
    /\ cache_dir = FALSE
    /\ cache = [d \in DocIds |-> "absent"]
    /\ doc_id = "d1"
    /\ filing_type = "P"
    /\ pc = "idle"
    /\ dcall = 1
    /\ url = pdf_url("P")
    /\ retry_count = 0
    /\ pdf_bytes = "pending"
    /\ log = <<>>
    /\ cache0 = [d \in DocIds |-> "absent"]
    /\ valid_trades = <<>>

IdleRow ==
    /\ row = [c \in {"type"} |-> <<>>]
    /\ line_no = 0
    /\ same_process = TRUE
    /\ hash_order = [i \in 1..2 |-> <<>>]
    /\ res = [i \in 1..2 |-> [state |-> "pending"]]

IdleMap ==
    /\ src_trade = [i \in 1..2 |-> [chamber |-> "house", event_uid |-> <<>>,
                                    politician_id |-> "None"]]
    /\ event = [i \in 1..2 |-> [state |-> "pending"]]

\* a key a JSON response does not carry
NoKey == -1

NoResponse == [status |-> 0, error |-> FALSE, trades_found |-> NoKey, inserted |-> NoKey]

IdleIngest ==
    /\ params_ok = TRUE
    /\ client_configured = TRUE
    /\ bundle = "filings"
    /\ ntrades = 0
    /\ ncompanies = 0
    /\ ingest_pc = "idle"
    /\ found = -1
    /\ offset = 0
    /\ inserted = 0
    /\ store_events = {}
    /\ store_companies = {}
    /\ response = NoResponse
    /\ failure = "none"

IdleAmount ==
    /\ amount_text = [i \in 1..2 |-> <<>>]
    /\ bucketed = [i \in 1..2 |-> [state |-> "pending"]]

\* a date text "A/B/Y" or "A-B-Y": the separator, the numbers A and B (one or
\* two digits each), the number Y and how many digits spell it
DateText(sep, a, b, year, ydigits) ==
    [sep |-> sep, a |-> a, b |-> b, year |-> year, ydigits |-> ydigits]

\* a text that is not of that form
NoFields == DateText("", 0, 0, 0, 0)

\* Python None for the result of parse_date
NoneDate == <<>>

IdleDate ==
    /\ date_text = NoFields
    /\ parsed = [state |-> "pending"]

IdleType ==
    /\ raw_value = <<>>
    /\ canonical = "pending"

IdleCompanies ==
    /\ events = <<>>
    /\ ev_idx = 0
    /\ companies = <<>>
    /\ company_rows = <<>>

\* an optional list argument: None, or a list (possibly empty)
Absent == [given |-> FALSE, items |-> <<>>]

Given(items) == [given |-> TRUE, items |-> items]

\* the arguments of filter_filings when every filter is left out
NoCriteria ==
    [since |-> NoDate, until |-> NoDate, names |-> Absent, filing_types |-> Absent,
     states |-> Absent]

IdleFilter ==
    /\ index = <<>>
    /\ criteria = NoCriteria
    /\ fl_idx = 0
    /\ filtered = <<>>
    /\ index0 = <<>>

IdleAsset ==
    /\ asset_args = [asset_str |-> <<>>, ticker |-> <<>>]
    /\ asset_type = "pending"

\* the extraction strategies: extract_transactions_region,
\* extract_tables_pdfplumber, extract_tables_camelot
Strategies == {"transactions_region", "pdfplumber", "camelot"}

IdleParse ==
    /\ pdf_type = "UNKNOWN"
    /\ extracted = [s \in Strategies |-> <<>>]
    /\ parse_pc = "idle"
    /\ invoked = <<>>
    /\ raw_rows = <<>>
    /\ fed = <<>>

IdleClassify ==
    /\ classification_cache = <<>>
    /\ cl_doc = <<>>
    /\ cl_bytes = <<>>
    /\ cl_pc = <<>>
    /\ classification = <<>>
    /\ cl_calls = <<>>
    /\ cl_log = <<>>

IdleSenate ==
    /\ sen_pc = "idle"
    /\ report_types = 0
    /\ report_idx = 0
    /\ sen_filings = 0
    /\ next_page_url = FALSE
    /\ sen_idx = 0
    /\ net_log = <<>>

IdleAction ==
    /\ house_row = [type |-> <<>>]
    /\ set_order = <<>>
    /\ house_trade = [state |-> "pending"]
    /\ house_event = [state |-> "pending"]

(***************************************************************************)
(* download_pdf, one step at a time.  The recursion is a tail recursion    *)
(* (every recursive call is `return self.download_pdf(...)`), so a frame   *)
(* is its arguments url and retry_count.                                   *)
(***************************************************************************)
\* lines 391-395: the cache holds a blob for doc_id
CacheHit ==
    /\ pc = "call"
    /\ cache_dir /\ cache[doc_id] # "absent"
    /\ pdf_bytes' = cache[doc_id]
    /\ pc' = "ret"
    /\ UNCHANGED <<cache_dir, cache, doc_id, filing_type, since_date, dcall, url,
                   retry_count, log, valid_trades, cache0>>
    /\ UNCHANGED not_fvars

CacheMiss ==
    /\ pc = "call"
    /\ ~(cache_dir /\ cache[doc_id] # "absent")
    /\ pc' = "get"
    /\ UNCHANGED <<cache_dir, cache, doc_id, filing_type, since_date, dcall, url,
                   retry_count, pdf_bytes, log, valid_trades, cache0>>
    /\ UNCHANGED not_fvars

\* lines 401, 409-416: the request answers 200
RequestSucceeds ==
    /\ pc = "get"
    /\ \E resp \in {"ok", "ok_empty"} :
         /\ log' = Append(log, ReqEvent(resp))
         /\ cache' = IF cache_dir THEN [cache EXCEPT ![doc_id] = Body(resp)] ELSE cache
         /\ pdf_bytes' = Body(resp)
    /\ pc' = "ret"
    /\ UNCHANGED <<cache_dir, doc_id, filing_type, since_date, dcall, url,
                   retry_count, valid_trades, cache0>>
    /\ UNCHANGED not_fvars

\* mutant: the switch of folder on every 404, not only on the first frame
RequestNotFoundAnyFrame ==
    /\ pc = "get"
    /\ retry_count <= MAX_RETRIES
    /\ log' = Append(log, ReqEvent("404"))
    /\ url' = alt_url(url)
    /\ retry_count' = retry_count + 1
    /\ pc' = "call"
    /\ UNCHANGED <<cache_dir, cache, doc_id, filing_type, since_date, dcall,
                   pdf_bytes, valid_trades, cache0>>
    /\ UNCHANGED not_fvars

\* lines 403-407: 404 on the first frame, recurse on the alternate url
RequestNotFoundFirst ==
    /\ pc = "get"
    /\ retry_count = 0
    /\ log' = Append(log, ReqEvent("404"))
    /\ url' = alt_url(url)
    /\ retry_count' = retry_count + 1
    /\ pc' = "call"
    /\ UNCHANGED <<cache_dir, cache, doc_id, filing_type, since_date, dcall,
                   pdf_bytes, valid_trades, cache0>>
    /\ UNCHANGED not_fvars

\* the request raised, or raise_for_status raised (an error status; a 404 too
\* once retry_count > 0)
Raises(resp) == resp = "err" \/ (resp = "404" /\ retry_count > 0)

\* mutant: the body is written to the cache before raise_for_status
RequestFailsRetry_CachesFirst ==
    /\ pc = "get"
    /\ retry_count < MAX_RETRIES
    /\ \E resp \in Responses :
         /\ Raises(resp)
         /\ log' = Append(log, ReqEvent(resp))
    /\ cache' = IF cache_dir THEN [cache EXCEPT ![doc_id] = "empty"] ELSE cache
    /\ pc' = "sleep"
    /\ UNCHANGED <<cache_dir, doc_id, filing_type, since_date, dcall, url,
                   retry_count, pdf_bytes, valid_trades, cache0>>
    /\ UNCHANGED not_fvars

\* lines 418-422: the except branch with retries left
RequestFailsRetry ==
    /\ pc = "get"
    /\ retry_count < MAX_RETRIES
    /\ \E resp \in Responses :
         /\ Raises(resp)
         /\ log' = Append(log, ReqEvent(resp))
    /\ pc' = "sleep"
    /\ UNCHANGED <<cache_dir, cache, doc_id, filing_type, since_date, dcall, url,
                   retry_count, pdf_bytes, valid_trades, cache0>>
    /\ UNCHANGED not_fvars

\* lines 421-422: time.sleep(2 ** retry_count), then the recursive call
Backoff ==
    /\ pc = "sleep"
    /\ log' = Append(log, SleepEvent)
    /\ retry_count' = retry_count + 1
    /\ pc' = "call"
    /\ UNCHANGED <<cache_dir, cache, doc_id, filing_type, since_date, dcall, url,
                   pdf_bytes, valid_trades, cache0>>
    /\ UNCHANGED not_fvars

\* mutant: the last failure is re-raised instead of returning None
RequestFailsGiveUp_Raises ==
    /\ pc = "get"
    /\ ~(retry_count < MAX_RETRIES)
    /\ \E resp \in Responses :
         /\ Raises(resp)
         /\ log' = Append(log, ReqEvent(resp))
    /\ pc' = "raised"
    /\ UNCHANGED <<cache_dir, cache, doc_id, filing_type, since_date, dcall, url,
                   retry_count, pdf_bytes, valid_trades, cache0>>
    /\ UNCHANGED not_fvars

\* lines 418-425: the except branch with no retry left
RequestFailsGiveUp ==
    /\ pc = "get"
    /\ ~(retry_count < MAX_RETRIES)
    /\ \E resp \in Responses :
         /\ Raises(resp)
         /\ log' = Append(log, ReqEvent(resp))
    /\ pdf_bytes' = "None"
    /\ pc' = "ret"
    /\ UNCHANGED <<cache_dir, cache, doc_id, filing_type, since_date, dcall, url,
                   retry_count, valid_trades, cache0>>
    /\ UNCHANGED not_fvars

(***************************************************************************)
(* process_single_filing around the download_pdf calls.                    *)
(***************************************************************************)
\* lines 812-814: the first call returned nothing, call again with the alternate url
TryAlternate ==
    /\ pc = "ret" /\ Falsy(pdf_bytes) /\ dcall = 1
    /\ dcall' = 2
    /\ url' = alternate_pdf_url(filing_type)
    /\ retry_count' = 0
    /\ pdf_bytes' = "pending"
    /\ pc' = "call"
    /\ cache0' = cache
    /\ UNCHANGED <<cache_dir, cache, doc_id, filing_type, since_date, log, valid_trades>>
    /\ UNCHANGED not_fvars

\* lines 815-817: both calls returned nothing
NoDocument ==
    /\ pc = "ret" /\ Falsy(pdf_bytes) /\ dcall = 2
    /\ valid_trades' = <<>>
    /\ pc' = "done"
    /\ UNCHANGED <<cache_dir, cache, doc_id, filing_type, since_date, dcall, url,
                   retry_count, pdf_bytes, log, cache0>>
    /\ UNCHANGED not_fvars

\* lines 819-832: parse, filter by since_date, validate
ParseAndValidate ==
    /\ pc = "ret" /\ ~Falsy(pdf_bytes)
    /\ \E trades \in SeqsUpTo(CandidateTrades, MaxRows) :
         valid_trades' = valid_of(trades, since_date)
    /\ pc' = "done"
    /\ UNCHANGED <<cache_dir, cache, doc_id, filing_type, since_date, dcall, url,
                   retry_count, pdf_bytes, log, cache0>>
    /\ UNCHANGED not_fvars

\* line 820: parse_pdf_for_trades raised
ParseRaises ==
    /\ pc = "ret" /\ ~Falsy(pdf_bytes)
    /\ pc' = "raised"
    /\ UNCHANGED <<cache_dir, cache, doc_id, filing_type, since_date, dcall, url,
                   retry_count, pdf_bytes, log, valid_trades, cache0>>
    /\ UNCHANGED not_fvars

InitFiling ==
    /\ cache_dir \in BOOLEAN
    /\ cache \in [DocIds -> {"absent"} \cup Blobs]
    /\ (~cache_dir => cache = [d \in DocIds |-> "absent"])
    /\ doc_id \in DocIds
    /\ filing_type \in FilingTypes
    /\ since_date \in {NoDate, DATE_MIN, TODAY}
    /\ pc = "call"
    /\ dcall = 1
    /\ url = pdf_url(filing_type)
    /\ retry_count = 0
    /\ pdf_bytes = "pending"
    /\ log = <<>>
    /\ cache0 = cache
    /\ valid_trades = <<>>
    /\ IdleBatch /\ IdleRow /\ IdleMap /\ IdleIngest /\ IdleAmount /\ IdleDate
    /\ IdleType /\ IdleCompanies /\ IdleFilter /\ IdleAsset /\ IdleParse
    /\ IdleClassify /\ IdleSenate /\ IdleAction

NextFiling ==
    \/ CacheHit
    \/ CacheMiss
    \/ RequestSucceeds
    \/ RequestNotFoundFirst
    \/ RequestFailsRetry
    \/ Backoff
    \/ RequestFailsGiveUp
    \/ TryAlternate
    \/ NoDocument
    \/ ParseAndValidate
    \/ ParseRaises

SpecFiling == InitFiling /\ [][NextFiling]_vars

\* every step of the worker is a step of its own thread: it is taken when enabled
FairSpecFiling == SpecFiling /\ WF_vars(NextFiling)

(***************************************************************************)
(* process_filing_batch: a ThreadPoolExecutor of MAX_WORKERS threads runs  *)
(* process_single_filing once per filing; the caller's thread submits      *)
(* every filing and then consumes the futures as they complete.  A worker  *)
(* is one step here, from taking the filing off the queue to the end of    *)
(* process_single_filing (its steps are those of SpecFiling); how it ends  *)
(* is the environment's choice.                                            *)
(***************************************************************************)
Batch == 1..nfilings

\* row_uid: sha256 of the key, first 16 hex digits; the digest is kept as the
\* key it was computed from (no two keys of the model collide)
row_uid(source, filing_id, lineno, ticker, date_iso, amount_str, action) ==
    [sha256_16 |-> <<source, filing_id, lineno, ticker, date_iso, amount_str, action>>]

\* the Trade of row k of filing f's document
BatchTrade(f, k, d, lo, hi) ==
    [filing_id |-> f, line_no |-> k,
     event_uid |-> row_uid("house_ptr", f, k, "AAPL", d, "$1,001 - $15,000", "Buy")]
        @@ Trade(d, lo, hi, "AAPL", "Apple")

\* a raw row _parse_trade_row makes a Trade of, and one it drops
TradeRow(d) == [kind |-> "trade", date |-> d]

NoTradeRow == [kind |-> "dropped", date |-> NoDate]

\* the raw rows extracted from filing f's document: a fixed batch in which
\* every third filing has only a row validate_trade rejects, every third one
\* a row the since_date filter may reject, and some rows are dropped by the
\* normalizer
ExtractedOf(f) ==
    CASE f % 3 = 1 -> <<TradeRow(TODAY), NoTradeRow, TradeRow(0), TradeRow(TODAY)>>
      [] f % 3 = 2 -> <<NoTradeRow, TradeRow(TODAY + 1)>>
      [] OTHER     -> <<TradeRow(DATE_MIN)>>

\* mutant: a row is numbered among the rows that became trades
trades_of_rows_kept_index(rows, f) ==
    LET numbered == [i \in DOMAIN rows |-> [idx |-> i - 1, row |-> rows[i]]]
        kept == SelectSeq(numbered, LAMBDA e : e.row.kind = "trade")
    IN [i \in DOMAIN kept |-> BatchTrade(f, i - 1, kept[i].row.date, 1, 2)]

\* lines 593-597 of parse_pdf_for_trades: every row of enumerate(raw_rows)
\* goes to _parse_trade_row with line_no = idx, the trades are kept
trades_of_rows(rows, f) ==
    LET numbered == [i \in DOMAIN rows |-> [idx |-> i - 1, row |-> rows[i]]]
        kept == SelectSeq(numbered, LAMBDA e : e.row.kind = "trade")
    IN [i \in DOMAIN kept |-> BatchTrade(f, kept[i].idx, kept[i].row.date, 1, 2)]

\* what parse_pdf_for_trades yields for filing f's document
ParsedOf(f) == trades_of_rows(ExtractedOf(f), f)

Running == {f \in Batch : status[f] = "running"}

Unsubmitted == {f \in Batch : status[f] = "new"}

Queued == {f \in Batch : status[f] = "queued"}

Min(S) == CHOOSE x \in S : \A y \in S : x <= y

\* mutant: a thread is spawned for every work item
PoolAlwaysSpawns == TRUE

\* line 780: ThreadPoolExecutor(max_workers=Config.MAX_WORKERS) runs a work
\* item only on one of its at most MAX_WORKERS threads
PoolHasIdleThread == Cardinality(Running) < MAX_WORKERS

\* lines 777-778
ReturnEmpty ==
    /\ batch_pc = "start" /\ ~download_and_parse
    /\ batch_pc' = "returned"
    /\ UNCHANGED <<download_and_parse, nfilings, status, outcome, yielded, consumed,
                   all_trades, errors>>
    /\ UNCHANGED not_bvars

\* line 780: the with statement creates the pool
EnterPool ==
    /\ batch_pc = "start" /\ download_and_parse
    /\ batch_pc' = "pool"
    /\ UNCHANGED <<download_and_parse, nfilings, status, outcome, yielded, consumed,
                   all_trades, errors>>
    /\ UNCHANGED not_bvars

\* lines 783-790: executor.submit for the next filing of the list
Submit(f) ==
    /\ batch_pc = "pool"
    /\ Unsubmitted # {} /\ f = Min(Unsubmitted)
    /\ status' = [status EXCEPT ![f] = "queued"]
    /\ UNCHANGED <<download_and_parse, nfilings, batch_pc, outcome, yielded, consumed,
                   all_trades, errors>>
    /\ UNCHANGED not_bvars

\* a pool thread takes the oldest work item off the queue
StartWork(f) ==
    /\ batch_pc = "pool"
    /\ Queued # {} /\ f = Min(Queued)
    /\ PoolHasIdleThread
    /\ status' = [status EXCEPT ![f] = "running"]
    /\ UNCHANGED <<download_and_parse, nfilings, batch_pc, outcome, yielded, consumed,
                   all_trades, errors>>
    /\ UNCHANGED not_bvars

Finish(f, kind, trades) ==
    /\ status[f] = "running"
    /\ status' = [status EXCEPT ![f] = "finished"]
    /\ outcome' = [outcome EXCEPT ![f] = [kind |-> kind, trades |-> trades]]
    /\ UNCHANGED <<download_and_parse, nfilings, batch_pc, yielded, consumed,
                   all_trades, errors>>
    /\ UNCHANGED not_bvars

\* The environment of a batch: the filings whose document the server may
\* fail to deliver, and those whose document may make the parser raise.
\* Every subset of the batch can fail; to keep the state space small a filing
\* fails in one way only.
Unfetchable == {f \in Filings : f % 2 = 0}

Unparseable == {f \in Filings : f % 2 = 1}

\* lines 811-832: the document was fetched and parsed
WorkerReturnsTrades(f) == Finish(f, "ok", valid_of(ParsedOf(f), since_date))

\* lines 812-817: both download_pdf calls returned nothing
WorkerNoDocument(f) == f \in Unfetchable /\ Finish(f, "nofile", <<>>)

\* process_single_filing raised: the future holds the exception
WorkerRaises(f) == f \in Unparseable /\ Finish(f, "raised", <<>>)

\* mutant: future.result() outside a try: the exception leaves the function
\* (after the with statement has waited for the pool)
Collect_NoCatch(f) ==
    /\ batch_pc = "pool" /\ Unsubmitted = {}
    /\ status[f] = "finished" /\ f \notin yielded
    /\ yielded' = yielded \cup {f}
    /\ consumed' = [consumed EXCEPT ![f] = @ + 1]
    /\ IF outcome[f].kind = "raised"
       THEN /\ batch_pc' = "raised"
            /\ UNCHANGED <<all_trades, errors>>
       ELSE /\ all_trades' = all_trades \o outcome[f].trades
            /\ UNCHANGED <<batch_pc, errors>>
    /\ UNCHANGED <<download_and_parse, nfilings, status, outcome>>
    /\ UNCHANGED not_bvars

\* mutant: all_trades = trades instead of all_trades.extend(trades)
Collect_Overwrites(f) ==
    /\ batch_pc = "pool" /\ Unsubmitted = {}
    /\ status[f] = "finished" /\ f \notin yielded
    /\ yielded' = yielded \cup {f}
    /\ consumed' = [consumed EXCEPT ![f] = @ + 1]
    /\ IF outcome[f].kind = "raised"
       THEN /\ errors' = errors \cup {f}
            /\ UNCHANGED all_trades
       ELSE /\ all_trades' = outcome[f].trades
            /\ UNCHANGED errors
    /\ UNCHANGED <<download_and_parse, nfilings, batch_pc, status, outcome>>
    /\ UNCHANGED not_bvars

\* lines 792-800: as_completed hands out a finished future it has not handed
\* out yet; its result extends all_trades, its exception is logged
Collect(f) ==
    /\ batch_pc = "pool" /\ Unsubmitted = {}
    /\ status[f] = "finished" /\ f \notin yielded
    /\ yielded' = yielded \cup {f}
    /\ consumed' = [consumed EXCEPT ![f] = @ + 1]
    /\ IF outcome[f].kind = "raised"
       THEN /\ errors' = errors \cup {f}
            /\ UNCHANGED all_trades
       ELSE /\ all_trades' = all_trades \o outcome[f].trades
            /\ UNCHANGED errors
    /\ UNCHANGED <<download_and_parse, nfilings, batch_pc, status, outcome>>
    /\ UNCHANGED not_bvars

\* mutant: return inside the loop, after the first future
Return_AfterFirst ==
    /\ batch_pc = "pool" /\ Unsubmitted = {}
    /\ (yielded # {} \/ Batch = {})
    /\ Running = {} /\ Queued = {}
    /\ batch_pc' = "returned"
    /\ UNCHANGED <<download_and_parse, nfilings, status, outcome, yielded, consumed,
                   all_trades, errors>>
    /\ UNCHANGED not_bvars

\* lines 792, 802: as_completed is exhausted, the with statement ends (it
\* waits for the pool, which is idle by then), return all_trades
Return ==
    /\ batch_pc = "pool" /\ Unsubmitted = {}
    /\ yielded = Batch
    /\ batch_pc' = "returned"
    /\ UNCHANGED <<download_and_parse, nfilings, status, outcome, yielded, consumed,
                   all_trades, errors>>
    /\ UNCHANGED not_bvars

InitBatch ==
    /\ download_and_parse \in BOOLEAN
    /\ nfilings \in 0..NumFilings
    /\ since_date \in {NoDate, TODAY}
    /\ batch_pc = "start"
    /\ status = [f \in Filings |-> "new"]
    /\ outcome = [f \in Filings |-> [kind |-> "none", trades |-> <<>>]]
    /\ yielded = {}
    /\ consumed = [f \in Filings |-> 0]
    /\ all_trades = <<>>
    /\ errors = {}
    /\ IdleFiling /\ IdleRow /\ IdleMap /\ IdleIngest /\ IdleAmount /\ IdleDate
    /\ IdleType /\ IdleCompanies /\ IdleFilter /\ IdleAsset /\ IdleParse
    /\ IdleClassify /\ IdleSenate /\ IdleAction

NextBatch ==
    \/ ReturnEmpty
    \/ EnterPool
    \/ \E f \in Filings : Submit(f)
    \/ \E f \in Filings : StartWork(f)
    \/ \E f \in Filings : WorkerReturnsTrades(f)
    \/ \E f \in Filings : WorkerNoDocument(f)
    \/ \E f \in Filings : WorkerRaises(f)
    \/ \E f \in Filings : Collect(f)
    \/ Return

SpecBatch == InitBatch /\ [][NextBatch]_vars

\* the pool's threads and the caller's thread keep running, and every
\* request of a worker returns or fails: an enabled step is taken
FairSpecBatch == SpecBatch /\ WF_vars(NextBatch)

(***************************************************************************)
(* The row normalizer, PDFProcessor._parse_trade_row.  A cell is its text  *)
(* after clean_text, as the sequence of its lower-cased words; <<>> is the *)
(* empty cell (and the missing column: `row.get(col) or ...`).             *)
(***************************************************************************)
TRADE_ACTIONS ==
    {"buy", "purchase", "acquire", "acquisition", "sell", "sale", "dispose",
     "disposition", "exchange", "exercise", "assignment", "expiration"}

\* a sample of Config.EXCLUDE_TOKENS, each token as the sequence of its words
EXCLUDE_TOKENS ==
    {<<"salary">>, <<"pension">>, <<"mortgage">>, <<"loan">>, <<"royalty">>,
     <<"social", "security">>, <<"line", "of", "credit">>}

\* str.capitalize on the action keywords
capitalize(w) ==
    CASE w = "buy" -> "Buy" [] w = "purchase" -> "Purchase" [] w = "acquire" -> "Acquire"
      [] w = "acquisition" -> "Acquisition" [] w = "sell" -> "Sell" [] w = "sale" -> "Sale"
      [] w = "dispose" -> "Dispose" [] w = "disposition" -> "Disposition"
      [] w = "exchange" -> "Exchange" [] w = "exercise" -> "Exercise"
      [] w = "assignment" -> "Assignment" [] w = "expiration" -> "Expiration"

Words(cell) == {cell[i] : i \in DOMAIN cell}

\* `for action in Config.TRADE_ACTIONS: if re.search(rf'\b{action}\b', s)`:
\* the first keyword, in the set's iteration order, that is a word of s
RECURSIVE first_action(_, _)
first_action(order, cell) ==
    IF order = <<>> THEN ""
    ELSE IF Head(order) \in Words(cell) THEN capitalize(Head(order))
         ELSE first_action(Tail(order), cell)

\* parse_action; order is the iteration order of the set TRADE_ACTIONS in
\* the running process (it depends on the process's string hash seed)
parse_action(cell, order) ==
    IF cell = <<>> THEN ""
    ELSE IF cell \in {<<"p">>, <<"b">>} THEN "Buy"
    ELSE IF cell \in {<<"s">>, <<"s", "(partial)">>} THEN "Sell"
    ELSE IF cell = <<"e">> THEN "Exchange"
    ELSE first_action(order, cell)

\* " ".join(values), as the words between its single spaces: an empty value
\* leaves an empty word between two separators
RECURSIVE join(_)
join(values) ==
    IF values = <<>> THEN <<>>
    ELSE (IF Head(values) = <<>> THEN <<"">> ELSE Head(values)) \o join(Tail(values))

\* `token in text` for a token of several words
contains(text, token) ==
    \E i \in 1..(Len(text) - Len(token) + 1) : SubSeq(text, i, i + Len(token) - 1) = token

\* mutant: every token is searched as one whole word, a phrase never matches
has_excluded_token_words_only(values) ==
    \E token \in EXCLUDE_TOKENS : Len(token) = 1 /\ token[1] \in Words(join(values))

\* has_excluded_token over the list of the row's values
has_excluded_token(values) ==
    LET text == join(values)
    IN \E token \in EXCLUDE_TOKENS :
           IF Len(token) > 1 THEN contains(text, token) ELSE token[1] \in Words(text)

\* calendar: the days of a month, as datetime.date checks them
is_leap(year) == (year % 4 = 0 /\ year % 100 # 0) \/ year % 400 = 0

days_in_month(year, month) ==
    IF month = 2 THEN (IF is_leap(year) THEN 29 ELSE 28)
    ELSE IF month \in {4, 6, 9, 11} THEN 30 ELSE 31

valid_date(year, month, day) ==
    /\ 1 <= year /\ year <= 9999
    /\ 1 <= month /\ month <= 12
    /\ 1 <= day /\ day <= days_in_month(year, month)

\* strptime's %y: a two-digit year below 69 is in the 2000s, else in the 1900s
strptime_y(yy) == IF yy < 69 THEN 2000 + yy ELSE 1900 + yy

\* datetime.strptime(text, fmt).date() for the formats of Config.DATE_FORMATS
\* that a text "A/B/Y" or "A-B-Y" can match; NoneDate stands for ValueError.
\* %Y takes exactly four digits and %y exactly two.
strptime(t, fmt) ==
    CASE fmt = "%m/%d/%Y" ->
            IF t.sep = "/" /\ t.ydigits = 4 /\ valid_date(t.year, t.a, t.b)
            THEN <<t.year, t.a, t.b>> ELSE NoneDate
      [] fmt = "%m/%d/%y" ->
            IF t.sep = "/" /\ t.ydigits = 2 /\ valid_date(strptime_y(t.year), t.a, t.b)
            THEN <<strptime_y(t.year), t.a, t.b>> ELSE NoneDate
      [] fmt = "%m-%d-%Y" ->
            IF t.sep = "-" /\ t.ydigits = 4 /\ valid_date(t.year, t.a, t.b)
            THEN <<t.year, t.a, t.b>> ELSE NoneDate
      [] fmt = "%d/%m/%Y" ->
            IF t.sep = "/" /\ t.ydigits = 4 /\ valid_date(t.year, t.b, t.a)
            THEN <<t.year, t.b, t.a>> ELSE NoneDate
      [] fmt = "%d-%m-%Y" ->
            IF t.sep = "-" /\ t.ydigits = 4 /\ valid_date(t.year, t.b, t.a)
            THEN <<t.year, t.b, t.a>> ELSE NoneDate
      [] OTHER -> NoneDate      \* %Y-%m-%d, %Y/%m/%d and the month-name formats

\* Config.DATE_FORMATS, in its order
DATE_FORMATS ==
    <<"%m/%d/%Y", "%m/%d/%y", "%m-%d-%Y", "%Y-%m-%d", "%d/%m/%Y", "%d-%m-%Y",
      "%Y/%m/%d", "%B %d, %Y", "%b %d, %Y", "%d %B %Y", "%d %b %Y">>

\* `for fmt in formats: try: return strptime(text, fmt)`
RECURSIVE first_format(_, _)
first_format(t, formats) ==
    IF formats = <<>> THEN NoneDate
    ELSE IF strptime(t, Head(formats)) # NoneDate THEN strptime(t, Head(formats))
         ELSE first_format(t, Tail(formats))

\* the last resort of parse_date: _DATE_FALLBACK_RE and its two-digit-year rule
date_fallback(t) ==
    LET year_int == IF t.year < 100
                    THEN (IF t.year < 50 THEN 2000 + t.year ELSE 1900 + t.year)
                    ELSE t.year
    IN IF valid_date(year_int, t.a, t.b) THEN <<year_int, t.a, t.b>> ELSE NoneDate

\* parsing_utils.parse_date with formats = Config.DATE_FORMATS, on the fields
\* of the text: <<year, month, day>> or NoneDate
parse_date_fields(t) ==
    IF t = NoFields THEN NoneDate
    ELSE IF first_format(t, DATE_FORMATS) # NoneDate THEN first_format(t, DATE_FORMATS)
         ELSE date_fallback(t)

\* the date texts of the row model and the fields they spell
date_fields(cell) ==
    CASE cell = <<"01/15/2024">> -> DateText("/", 1, 15, 2024, 4)
      [] cell = <<"3/4/95">> -> DateText("/", 3, 4, 95, 2)
      [] OTHER -> NoFields

\* house parse_date on a cell
parse_date(cell) == parse_date_fields(date_fields(cell))

\* the number texts of the model, `\$?([\d,]+(?:\.\d+)?)`, and what
\* _coerce_int, int(float(value.replace(",", ""))), makes of each
AmountValue ==
    ("$0" :> 0) @@ ("$999" :> 999) @@ ("$1,000" :> 1000) @@ ("$1,001" :> 1001)
    @@ ("$15,000" :> 15000) @@ ("$15,001" :> 15001) @@ ("$50,000" :> 50000)
    @@ ("$5,000,000" :> 5000000)

IsNumber(w) == w \in DOMAIN AmountValue

coerce_int(w) == AmountValue[w]

\* parsing_utils.parse_amount_range: <<lo, hi>>, with -1 for None.  The
\* patterns are tried in the order of the code: a range "A - B" or "A to B"
\* (swapped when reversed), "under A" / "less than A", "over A", a single
\* number.
parse_amount_range(cell) ==
    IF cell = <<>> THEN <<-1, -1>>
    ELSE IF Len(cell) = 3 /\ cell[2] \in {"-", "to"} /\ IsNumber(cell[1]) /\ IsNumber(cell[3])
         THEN LET low == coerce_int(cell[1])
                  high == coerce_int(cell[3])
              IN IF low > high THEN <<high, low>> ELSE <<low, high>>
    ELSE IF Len(cell) = 2 /\ cell[1] = "under" /\ IsNumber(cell[2])
         THEN <<0, coerce_int(cell[2])>>
    ELSE IF Len(cell) = 3 /\ cell[1] = "less" /\ cell[2] = "than" /\ IsNumber(cell[3])
         THEN <<0, coerce_int(cell[3])>>
    ELSE IF Len(cell) = 2 /\ cell[1] = "over" /\ IsNumber(cell[2])
         THEN <<coerce_int(cell[2]), -1>>
    ELSE IF Len(cell) = 1 /\ IsNumber(cell[1])
         THEN <<coerce_int(cell[1]), coerce_int(cell[1])>>
    ELSE <<-1, -1>>

is_amount_range(cell) ==
    LET r == parse_amount_range(cell)
    IN r[1] # -1 /\ r[2] # -1 /\ r[2] >= r[1]

\* Config.AMOUNT_BUCKETS; the last upper bound, 10**12 in the program, is the
\* largest integer of the model checker here (the amounts of the model stay
\* below it)
AMOUNT_BUCKETS ==
    <<<<0, 1000, 0>>, <<1000, 15000, 1>>, <<15000, 50000, 2>>, <<50000, 100000, 3>>,
      <<100000, 250000, 4>>, <<250000, 500000, 5>>, <<500000, 1000000, 6>>,
      <<1000000, 5000000, 7>>, <<5000000, 2147483647, 8>>>>

RECURSIVE first_bucket(_, _, _)
first_bucket(buckets, lo, hi) ==
    IF buckets = <<>> THEN 0
    ELSE IF lo >= Head(buckets)[1] /\ hi <= Head(buckets)[2] THEN Head(buckets)[3]
         ELSE first_bucket(Tail(buckets), lo, hi)

\* mutant: the bounds are returned in the wrong order
parse_amount_bucket_hi_lo(cell) ==
    LET r == parse_amount_range(cell)
    IN IF r[1] = -1 /\ r[2] = -1 THEN <<0, 0, 0>>
       ELSE LET lo_val == IF r[1] = -1 THEN 0 ELSE r[1]
                hi_val == IF r[2] # -1 THEN r[2] ELSE lo_val
            IN <<hi_val, lo_val, first_bucket(AMOUNT_BUCKETS, lo_val, hi_val)>>

\* parse_amount_bucket: <<lo, hi, bucket>>
parse_amount_bucket(cell) ==
    LET r == parse_amount_range(cell)
    IN IF r[1] = -1 /\ r[2] = -1 THEN <<0, 0, 0>>
       ELSE LET lo_val == IF r[1] = -1 THEN 0 ELSE r[1]
                hi_val == IF r[2] # -1 THEN r[2] ELSE lo_val
            IN <<lo_val, hi_val, first_bucket(AMOUNT_BUCKETS, lo_val, hi_val)>>

\* parse_asset on the asset texts of the model: <<company, ticker>>
parse_asset(cell) ==
    CASE cell = <<"apple", "inc.", "(AAPL)">> -> <<"Apple Inc.", "AAPL">>
      [] cell = <<"bitcoin">> -> <<"Bitcoin", "">>
      [] cell = <<"mortgage", "trust", "(MTG)">> -> <<"Mortgage Trust", "MTG">>
      [] cell = <<"social", "security", "fund">> -> <<"Social Security Fund", "">>
      [] OTHER -> <<"", "">>

\* `row.get(a) or row.get(b) or ... or ""`
RECURSIVE first_cell(_, _)
first_cell(r, cols) ==
    IF cols = <<>> THEN <<>>
    ELSE IF Head(cols) \in DOMAIN r /\ r[Head(cols)] # <<>> THEN r[Head(cols)]
         ELSE first_cell(r, Tail(cols))

Dropped == [state |-> "dropped"]

\* the columns of a row in the order of the table's header
Columns == <<"transaction date", "notification date", "type", "amount", "asset">>

\* list(normalized.values())
RECURSIVE values_in(_, _)
values_in(r, cols) ==
    IF cols = <<>> THEN <<>>
    ELSE IF Head(cols) \in DOMAIN r THEN <<r[Head(cols)]>> \o values_in(r, Tail(cols))
         ELSE values_in(r, Tail(cols))

row_values(r) == values_in(r, Columns)

\* the column names _parse_trade_row looks the date up under, in its order
DATE_COLUMNS == <<"date", "transaction date", "tx date", "trade date", "transaction dt">>

\* mutant: the date is taken from any column whose name ends in "date"
parse_trade_row_any_date_column(r, filing_id, actor, lineno, order) ==
    LET date_str == first_cell(r, DATE_COLUMNS \o <<"notification date">>)
        trade_date == parse_date(date_str)
        action_raw == first_cell(r, <<"transaction type", "type">>)
        action == parse_action(action_raw, order)
        amount == first_cell(r, <<"amount", "amount range", "value", "value of asset">>)
        amt == parse_amount_bucket(amount)
        asset_field == first_cell(r, <<"asset", "security", "company", "description">>)
        asset == parse_asset(asset_field)
        company == asset[1]
        ticker == asset[2]
    IN IF has_excluded_token(row_values(r)) THEN Dropped
       ELSE IF trade_date = NoneDate THEN Dropped
       ELSE IF action = "" THEN Dropped
       ELSE IF ~is_amount_range(amount) THEN Dropped
       ELSE IF ticker = "" /\ company = "" THEN Dropped
       ELSE [state |-> "trade",
             event_uid |-> row_uid("house_ptr", filing_id, lineno,
                                   IF ticker # "" THEN ticker ELSE company,
                                   trade_date, amount, action),
             filing_id |-> filing_id, actor |-> actor, date |-> trade_date,
             action |-> action, ticker |-> ticker, company |-> company,
             amount_range |-> amount, amount_lo |-> amt[1], amount_hi |-> amt[2],
             amount_bucket |-> amt[3]]

\* _parse_trade_row(row, filing_id, actor, line_no) in a process whose set
\* TRADE_ACTIONS iterates in `order`
parse_trade_row(r, filing_id, actor, lineno, order) ==
    LET date_str == first_cell(r, DATE_COLUMNS)
        trade_date == parse_date(date_str)
        action_raw == first_cell(r, <<"transaction type", "type">>)
        action == parse_action(action_raw, order)
        amount == first_cell(r, <<"amount", "amount range", "value", "value of asset">>)
        amt == parse_amount_bucket(amount)
        asset_field == first_cell(r, <<"asset", "security", "company", "description">>)
        asset == parse_asset(asset_field)
        company == asset[1]
        ticker == asset[2]
    IN IF has_excluded_token(row_values(r)) THEN Dropped
       ELSE IF trade_date = NoneDate THEN Dropped
       ELSE IF action = "" THEN Dropped
       ELSE IF ~is_amount_range(amount) THEN Dropped
       ELSE IF ticker = "" /\ company = "" THEN Dropped
       ELSE [state |-> "trade",
             event_uid |-> row_uid("house_ptr", filing_id, lineno,
                                   IF ticker # "" THEN ticker ELSE company,
                                   trade_date, amount, action),
             filing_id |-> filing_id, actor |-> actor, date |-> trade_date,
             action |-> action, ticker |-> ticker, company |-> company,
             amount_range |-> amount, amount_lo |-> amt[1], amount_hi |-> amt[2],
             amount_bucket |-> amt[3]]

\* the rows of the model: one cell per column from small sets of texts
DateCells == {<<>>, <<"01/15/2024">>, <<"n/a">>}

ActionCells ==
    {<<>>, <<"p">>, <<"s", "(partial)">>, <<"e">>, <<"purchase">>, <<"salary">>,
     <<"sale", "exchange">>, <<"purchased">>}

AmountCells ==
    {<<"$1,001", "-", "$15,000">>, <<"$50,000", "-", "$15,001">>, <<"under", "$1,000">>,
     <<"over", "$5,000,000">>, <<"$15,000">>, <<"n/a">>}

AssetCells ==
    {<<"apple", "inc.", "(AAPL)">>, <<"bitcoin">>, <<"mortgage", "trust", "(MTG)">>,
     <<"social", "security", "fund">>, <<>>}

\* the date column of a row and its cell: a recognized column with any of the
\* date cells, or a column _parse_trade_row does not look at, with a date in it
DateEntries ==
    {<<"transaction date", d>> : d \in DateCells}
        \cup {<<"notification date", <<"01/15/2024">>>>}

Rows ==
    {[c \in {e[1], "type", "amount", "asset"} |->
        CASE c = e[1] -> e[2] [] c = "type" -> a
          [] c = "amount" -> m [] c = "asset" -> x] :
        e \in DateEntries, a \in ActionCells, m \in AmountCells, x \in AssetCells}

\* the iteration orders of Config.TRADE_ACTIONS the model lets a process
\* have: every order of three of the keywords, before the other nine
FocusOrders ==
    {<<"purchase", "sale", "exchange">>, <<"purchase", "exchange", "sale">>,
     <<"sale", "purchase", "exchange">>, <<"sale", "exchange", "purchase">>,
     <<"exchange", "purchase", "sale">>, <<"exchange", "sale", "purchase">>}

SetOrders ==
    {o \o <<"buy", "acquire", "acquisition", "sell", "dispose", "disposition",
            "exercise", "assignment", "expiration">> : o \in FocusOrders}

Pending == [state |-> "pending"]

\* one invocation of _parse_trade_row on the row
Normalize(i) ==
    /\ res[i] = Pending
    /\ res' = [res EXCEPT ![i] = parse_trade_row(row, "d1", "Jane Doe", line_no,
                                                  hash_order[i])]
    /\ UNCHANGED <<row, line_no, same_process, hash_order>>
    /\ UNCHANGED not_rvars

InitRow ==
    /\ row \in Rows
    /\ line_no \in 0..MaxLineNo
    /\ same_process \in BOOLEAN
    /\ hash_order \in [1..2 -> SetOrders]
    /\ (same_process => hash_order[1] = hash_order[2])
    /\ res = [i \in 1..2 |-> Pending]
    /\ since_date = NoDate
    /\ IdleFiling /\ IdleBatch /\ IdleMap /\ IdleIngest /\ IdleAmount /\ IdleDate
    /\ IdleType /\ IdleCompanies /\ IdleFilter /\ IdleAsset /\ IdleParse
    /\ IdleClassify /\ IdleSenate /\ IdleAction

NextRow == \E i \in 1..2 : Normalize(i)

SpecRow == InitRow /\ [][NextRow]_vars

(***************************************************************************)
(* The event mappers of normalization.py.  Strings are sequences of        *)
(* characters here, so that the f-string and strip() of                    *)
(* _deterministic_uuid are computed, not assumed.                          *)
(***************************************************************************)
HexChars == {"0", "a", "e"}       \* a sample of the 16 hex digits

\* the event_uid values: hexdigest()[:16] of row_uid and _generate_trade_uid
RECURSIVE SeqsOfLen(_, _)
SeqsOfLen(S, n) ==
    IF n = 0 THEN {<<>>}
    ELSE {Append(q, x) : q \in SeqsOfLen(S, n - 1), x \in S}

EventUids == SeqsOfLen(HexChars, HexLen)

\* the characters of the words the model spells out
Chars(word) ==
    CASE word = "house" -> <<"h", "o", "u", "s", "e">>
      [] word = "senate" -> <<"s", "e", "n", "a", "t", "e">>
      [] word = "buy" -> <<"b", "u", "y">>
      [] word = "purchase" -> <<"p", "u", "r", "c", "h", "a", "s", "e">>
      [] word = "acquire" -> <<"a", "c", "q", "u", "i", "r", "e">>
      [] word = "acquisition" -> <<"a", "c", "q", "u", "i", "s", "i", "t", "i", "o", "n">>
      [] word = "bought" -> <<"b", "o", "u", "g", "h", "t">>
      [] word = "sell" -> <<"s", "e", "l", "l">>
      [] word = "sale" -> <<"s", "a", "l", "e">>
      [] word = "dispose" -> <<"d", "i", "s", "p", "o", "s", "e">>
      [] word = "disposition" -> <<"d", "i", "s", "p", "o", "s", "i", "t", "i", "o", "n">>
      [] word = "sold" -> <<"s", "o", "l", "d">>
      [] word = "Buy" -> <<"B", "u", "y">>
      [] word = "Sell" -> <<"S", "e", "l", "l">>
      [] word = "Exchange" -> <<"E", "x", "c", "h", "a", "n", "g", "e">>
      [] word = "Purchase" -> <<"P", "u", "r", "c", "h", "a", "s", "e">>
      [] word = "Acquire" -> <<"A", "c", "q", "u", "i", "r", "e">>
      [] word = "Acquisition" -> <<"A", "c", "q", "u", "i", "s", "i", "t", "i", "o", "n">>
      [] word = "Sale" -> <<"S", "a", "l", "e">>
      [] word = "Dispose" -> <<"D", "i", "s", "p", "o", "s", "e">>
      [] word = "Disposition" -> <<"D", "i", "s", "p", "o", "s", "i", "t", "i", "o", "n">>
      [] word = "Exercise" -> <<"E", "x", "e", "r", "c", "i", "s", "e">>
      [] word = "Assignment" -> <<"A", "s", "s", "i", "g", "n", "m", "e", "n", "t">>
      [] word = "Expiration" -> <<"E", "x", "p", "i", "r", "a", "t", "i", "o", "n">>
      [] word = "(Partial)" -> <<"(", "P", "a", "r", "t", "i", "a", "l", ")">>
      [] word = "WHOLESALE" -> <<"W", "H", "O", "L", "E", "S", "A", "L", "E">>
      [] word = "n/a" -> <<"n", "/", "a">>
      [] word = "Apple" -> <<"A", "p", "p", "l", "e">>
      [] word = "Bitcoin" -> <<"B", "i", "t", "c", "o", "i", "n">>
      [] word = "Call" -> <<"C", "a", "l", "l">>
      [] word = "Computer" -> <<"C", "o", "m", "p", "u", "t", "e", "r">>
      [] word = "Index" -> <<"I", "n", "d", "e", "x">>
      [] word = "Fund" -> <<"F", "u", "n", "d">>
      [] word = "Mutual" -> <<"M", "u", "t", "u", "a", "l">>
      [] word = "Treasury" -> <<"T", "r", "e", "a", "s", "u", "r", "y">>
      [] word = "ETF" -> <<"E", "T", "F">>
      [] word = "Trust" -> <<"T", "r", "u", "s", "t">>
      [] word = "Inc." -> <<"I", "n", "c", ".">>
      [] word = "call" -> <<"c", "a", "l", "l">>
      [] word = "put" -> <<"p", "u", "t">>
      [] word = "option" -> <<"o", "p", "t", "i", "o", "n">>
      [] word = "strike" -> <<"s", "t", "r", "i", "k", "e">>
      [] word = "expiry" -> <<"e", "x", "p", "i", "r", "y">>
      [] word = "expire" -> <<"e", "x", "p", "i", "r", "e">>
      [] word = "crypto" -> <<"c", "r", "y", "p", "t", "o">>
      [] word = "bitcoin" -> <<"b", "i", "t", "c", "o", "i", "n">>
      [] word = "ethereum" -> <<"e", "t", "h", "e", "r", "e", "u", "m">>
      [] word = "digital asset" -> <<"d", "i", "g", "i", "t", "a", "l", " ", "a", "s", "s", "e", "t">>
      [] word = "mutual fund" -> <<"m", "u", "t", "u", "a", "l", " ", "f", "u", "n", "d">>
      [] word = "index fund" -> <<"i", "n", "d", "e", "x", " ", "f", "u", "n", "d">>
      [] word = "bond" -> <<"b", "o", "n", "d">>
      [] word = "treasury" -> <<"t", "r", "e", "a", "s", "u", "r", "y">>
      [] word = "note" -> <<"n", "o", "t", "e">>
      [] word = "bill" -> <<"b", "i", "l", "l">>
      [] word = "etf" -> <<"e", "t", "f">>
      [] word = "fund" -> <<"f", "u", "n", "d">>
      [] word = "index" -> <<"i", "n", "d", "e", "x">>
      [] word = "trust" -> <<"t", "r", "u", "s", "t">>
      [] word = "spdr" -> <<"s", "p", "d", "r">>
      [] word = "ishares" -> <<"i", "s", "h", "a", "r", "e", "s">>
      [] word = "vanguard" -> <<"v", "a", "n", "g", "u", "a", "r", "d">>
      [] word = "AAPL" -> <<"A", "A", "P", "L">>
      [] word = "BTC" -> <<"B", "T", "C">>
      [] word = "btc" -> <<"b", "t", "c">>
      [] word = "SCHF" -> <<"S", "C", "H", "F">>
      [] word = "GBTC" -> <<"G", "B", "T", "C">>
      [] word = "ETH" -> <<"E", "T", "H">>
      [] word = "" -> <<>>

Whitespace == {" "}

\* str.strip()
RECURSIVE lstrip(_)
lstrip(q) == IF q # <<>> /\ Head(q) \in Whitespace THEN lstrip(Tail(q)) ELSE q

RECURSIVE rstrip(_)
rstrip(q) ==
    IF q # <<>> /\ q[Len(q)] \in Whitespace THEN rstrip(SubSeq(q, 1, Len(q) - 1)) ELSE q

strip(q) == rstrip(lstrip(q))

\* str.lower() on one character
lower(c) ==
    CASE c = "A" -> "a" [] c = "B" -> "b" [] c = "D" -> "d" [] c = "E" -> "e"
      [] c = "H" -> "h" [] c = "L" -> "l" [] c = "O" -> "o" [] c = "P" -> "p"
      [] c = "S" -> "s" [] c = "W" -> "w" [] c = "C" -> "c" [] c = "I" -> "i"
      [] c = "F" -> "f" [] c = "M" -> "m" [] c = "T" -> "t" [] c = "G" -> "g"
      [] OTHER -> c

to_lower(q) == [k \in DOMAIN q |-> lower(q[k])]

\* normalize_text: the non-breaking space becomes a space, each run of
\* whitespace one space, and the ends are stripped ("nbsp" and "tab" stand for
\* the characters U+00A0 and U+0009)
RECURSIVE collapse(_)
collapse(q) ==
    IF Len(q) < 2 THEN q
    ELSE IF q[1] = " " /\ q[2] = " " THEN collapse(Tail(q))
         ELSE <<q[1]>> \o collapse(Tail(q))

normalize_text(q) ==
    strip(collapse([k \in DOMAIN q |-> IF q[k] \in {"nbsp", "tab"} THEN " " ELSE q[k]]))

\* _BUY_KEYWORDS and _SELL_KEYWORDS
BUY_KEYWORDS ==
    {Chars("buy"), Chars("purchase"), Chars("acquire"), Chars("acquisition"),
     Chars("bought")}

SELL_KEYWORDS ==
    {Chars("sell"), Chars("sale"), Chars("dispose"), Chars("disposition"),
     Chars("sold")}

\* mutant: the sell family is tried before the buy family
canonicalize_transaction_type_sell_first(raw) ==
    IF raw = <<>> THEN "other"
    ELSE LET text == to_lower(normalize_text(raw))
         IN IF text = <<>> THEN "other"
            ELSE IF \E keyword \in SELL_KEYWORDS : contains(text, keyword) THEN "sell"
            ELSE IF \E keyword \in BUY_KEYWORDS : contains(text, keyword) THEN "buy"
            ELSE "other"

\* canonicalize_transaction_type; <<>> is None or the empty string
canonicalize_transaction_type(raw) ==
    IF raw = <<>> THEN "other"
    ELSE LET text == to_lower(normalize_text(raw))
         IN IF text = <<>> THEN "other"
            ELSE IF \E keyword \in BUY_KEYWORDS : contains(text, keyword) THEN "buy"
            ELSE IF \E keyword \in SELL_KEYWORDS : contains(text, keyword) THEN "sell"
            ELSE "other"

\* uuid.uuid5(namespace, name): SHA-1 of namespace and name; the UUID is
\* kept as the pair it was computed from (UUIDv5 taken as collision-free)
uuid5(namespace, name) == [namespace |-> namespace, name |-> name]

\* mutant: the token is the fingerprint alone, without the source prefix
deterministic_uuid_no_source(source, fingerprint) ==
    uuid5("_EVENT_NAMESPACE", strip(fingerprint))

\* _deterministic_uuid(source, fingerprint)
deterministic_uuid(source, fingerprint) ==
    uuid5("_EVENT_NAMESPACE", strip(Chars(source) \o <<":">> \o fingerprint))

\* transaction_event_from_house_trade: the identity of the event
transaction_event_from_house_trade(trade, politician_id) ==
    [state |-> "event",
     id |-> deterministic_uuid("house", trade.event_uid),
     politician_id |-> politician_id]

\* transaction_event_from_senate_transaction: the identity of the event
transaction_event_from_senate_transaction(transaction, politician_id) ==
    [state |-> "event",
     id |-> deterministic_uuid("senate", transaction.event_uid),
     politician_id |-> politician_id]

\* one call of a chamber's mapper
MapHouse(i) ==
    /\ event[i].state = "pending"
    /\ src_trade[i].chamber = "house"
    /\ event' = [event EXCEPT ![i] =
           transaction_event_from_house_trade(src_trade[i], src_trade[i].politician_id)]
    /\ UNCHANGED src_trade
    /\ UNCHANGED not_mvars

MapSenate(i) ==
    /\ event[i].state = "pending"
    /\ src_trade[i].chamber = "senate"
    /\ event' = [event EXCEPT ![i] =
           transaction_event_from_senate_transaction(src_trade[i],
                                                     src_trade[i].politician_id)]
    /\ UNCHANGED src_trade
    /\ UNCHANGED not_mvars

InitMap ==
    /\ src_trade \in [1..2 -> [chamber : {"house", "senate"}, event_uid : EventUids,
                               politician_id : {"None", "P1"}]]
    /\ event = [i \in 1..2 |-> [state |-> "pending"]]
    /\ since_date = NoDate
    /\ IdleFiling /\ IdleBatch /\ IdleRow /\ IdleIngest /\ IdleAmount /\ IdleDate
    /\ IdleType /\ IdleCompanies /\ IdleFilter /\ IdleAsset /\ IdleParse
    /\ IdleClassify /\ IdleSenate /\ IdleAction

NextMap ==
    \/ \E i \in 1..2 : MapHouse(i)
    \/ \E i \in 1..2 : MapSenate(i)

SpecMap == InitMap /\ [][NextMap]_vars

(***************************************************************************)
(* trigger_ingestion of app.py: one POST /ingest, with _fetch_xml_bundle,  *)
(* _run_ingestion, _upsert_trades and the chunked upserts of db.py.  The   *)
(* events and the company rows of the invocation are numbered in list      *)
(* order; the store holds the numbers of the rows written.                 *)
(***************************************************************************)
chunk_size == 100

\* what the filing index can be: not downloadable (or a bundle without an XML
\* file), not well-formed XML, an index with no usable filing, an index with
\* filings
Bundles == {"unreachable", "malformed", "no_filings", "filings"}

TradeCounts == {0, 1, chunk_size, chunk_size + 1}

ErrorResponse(code) ==
    [status |-> code, error |-> TRUE, trades_found |-> NoKey, inserted |-> NoKey]

\* _chunk: the rows of the chunk that starts after `off`
chunk(off, n) == (off + 1)..(IF off + chunk_size < n THEN off + chunk_size ELSE n)

\* lines 42-46: a since / until parameter is not an ISO date
BadParams ==
    /\ ingest_pc = "start"
    /\ ~params_ok
    /\ response' = ErrorResponse(400)
    /\ failure' = "params"
    /\ ingest_pc' = "done"
    /\ UNCHANGED <<params_ok, client_configured, bundle, ntrades, ncompanies, found,
                   offset, inserted, store_events, store_companies>>
    /\ UNCHANGED not_ivars

\* lines 51-55: no store client
NoClient ==
    /\ ingest_pc = "start"
    /\ params_ok
    /\ ~client_configured
    /\ response' = ErrorResponse(500)
    /\ failure' = "config"
    /\ ingest_pc' = "done"
    /\ UNCHANGED <<params_ok, client_configured, bundle, ntrades, ncompanies, found,
                   offset, inserted, store_events, store_companies>>
    /\ UNCHANGED not_ivars

\* lines 57-60, 69-71: _fetch_xml_bundle raises
FetchRaises ==
    /\ ingest_pc = "start"
    /\ params_ok /\ client_configured
    /\ bundle = "unreachable"
    /\ response' = ErrorResponse(500)
    /\ failure' = "index_fetch"
    /\ ingest_pc' = "done"
    /\ UNCHANGED <<params_ok, client_configured, bundle, ntrades, ncompanies, found,
                   offset, inserted, store_events, store_companies>>
    /\ UNCHANGED not_ivars

\* house/ingest.py lines 193-198, app.py lines 165-167: ET.ParseError is caught,
\* parse_financial_disclosure_xml returns [] and _run_ingestion returns []
IndexUnparseable ==
    /\ ingest_pc = "start"
    /\ params_ok /\ client_configured
    /\ bundle = "malformed"
    /\ found' = 0
    /\ failure' = "index_parse"
    /\ ingest_pc' = "ran"
    /\ UNCHANGED <<params_ok, client_configured, bundle, ntrades, ncompanies, offset,
                   inserted, store_events, store_companies, response>>
    /\ UNCHANGED not_ivars

\* app.py lines 165-167, 178-179: no filing, or none passes the filter
NoFilings ==
    /\ ingest_pc = "start"
    /\ params_ok /\ client_configured
    /\ bundle = "no_filings"
    /\ found' = 0
    /\ ingest_pc' = "ran"
    /\ UNCHANGED <<params_ok, client_configured, bundle, ntrades, ncompanies, offset,
                   inserted, store_events, store_companies, response, failure>>
    /\ UNCHANGED not_ivars

\* app.py lines 181-188: process_filing_batch returns its trades
RunIngestion ==
    /\ ingest_pc = "start"
    /\ params_ok /\ client_configured
    /\ bundle = "filings"
    /\ found' = ntrades
    /\ ingest_pc' = "ran"
    /\ UNCHANGED <<params_ok, client_configured, bundle, ntrades, ncompanies, offset,
                   inserted, store_events, store_companies, response, failure>>
    /\ UNCHANGED not_ivars

\* lines 73-74, 81: no trades, nothing to write
RespondEmpty ==
    /\ ingest_pc = "ran"
    /\ found = 0
    /\ response' = [status |-> 200, error |-> FALSE, trades_found |-> found,
                    inserted |-> inserted]
    /\ ingest_pc' = "done"
    /\ UNCHANGED <<params_ok, client_configured, bundle, ntrades, ncompanies, found,
                   offset, inserted, store_events, store_companies, failure>>
    /\ UNCHANGED not_ivars

\* lines 74-76, 192-196; db.py lines 32-36
StartUpsert ==
    /\ ingest_pc = "ran"
    /\ found > 0
    /\ offset' = 0
    /\ ingest_pc' = "events"
    /\ UNCHANGED <<params_ok, client_configured, bundle, ntrades, ncompanies, found,
                   inserted, store_events, store_companies, response, failure>>
    /\ UNCHANGED not_ivars

\* db.py lines 38-41: the store takes one chunk of events
UpsertEventsChunk ==
    /\ ingest_pc = "events"
    /\ offset < found
    /\ store_events' = store_events \cup chunk(offset, found)
    /\ inserted' = inserted + Cardinality(chunk(offset, found))
    /\ offset' = offset + Cardinality(chunk(offset, found))
    /\ UNCHANGED <<params_ok, client_configured, bundle, ntrades, ncompanies, found,
                   ingest_pc, store_companies, response, failure>>
    /\ UNCHANGED not_ivars

\* the handler's except branch, lines 77-79
StoreFailure ==
    /\ response' = [status |-> 500, error |-> TRUE, trades_found |-> found,
                    inserted |-> NoKey]
    /\ failure' = "store"
    /\ ingest_pc' = "done"
    /\ UNCHANGED <<params_ok, client_configured, bundle, ntrades, ncompanies, found,
                   offset, inserted, store_events, store_companies>>

\* db.py line 39: the store rejects a chunk of events, execute() raises
UpsertEventsRaises ==
    /\ ingest_pc = "events"
    /\ offset < found
    /\ StoreFailure
    /\ UNCHANGED not_ivars

\* db.py line 43, app.py lines 197-199
EventsDone ==
    /\ ingest_pc = "events"
    /\ offset >= found
    /\ ncompanies > 0
    /\ offset' = 0
    /\ ingest_pc' = "companies"
    /\ UNCHANGED <<params_ok, client_configured, bundle, ntrades, ncompanies, found,
                   inserted, store_events, store_companies, response, failure>>
    /\ UNCHANGED not_ivars

\* db.py lines 62-65: the store takes one chunk of company rows
UpsertCompaniesChunk ==
    /\ ingest_pc = "companies"
    /\ offset < ncompanies
    /\ store_companies' = store_companies \cup chunk(offset, ncompanies)
    /\ offset' = offset + Cardinality(chunk(offset, ncompanies))
    /\ UNCHANGED <<params_ok, client_configured, bundle, ntrades, ncompanies, found,
                   ingest_pc, inserted, store_events, response, failure>>
    /\ UNCHANGED not_ivars

\* db.py line 63: the store rejects a chunk of company rows
UpsertCompaniesRaises ==
    /\ ingest_pc = "companies"
    /\ offset < ncompanies
    /\ StoreFailure
    /\ UNCHANGED not_ivars

\* app.py lines 198-201, 81: every write went through
RespondInserted ==
    /\ \/ ingest_pc = "events" /\ offset >= found /\ ncompanies = 0
       \/ ingest_pc = "companies" /\ offset >= ncompanies
    /\ response' = [status |-> 200, error |-> FALSE, trades_found |-> found,
                    inserted |-> inserted]
    /\ ingest_pc' = "done"
    /\ UNCHANGED <<params_ok, client_configured, bundle, ntrades, ncompanies, found,
                   offset, inserted, store_events, store_companies, failure>>
    /\ UNCHANGED not_ivars

InitIngest ==
    /\ params_ok \in BOOLEAN
    /\ client_configured \in BOOLEAN
    /\ bundle \in Bundles
    /\ ntrades \in TradeCounts
    /\ ncompanies \in {0, 1, ntrades}
    /\ ingest_pc = "start"
    /\ found = -1
    /\ offset = 0
    /\ inserted = 0
    /\ store_events = {}
    /\ store_companies = {}
    /\ response = NoResponse
    /\ failure = "none"
    /\ since_date = NoDate
    /\ IdleFiling /\ IdleBatch /\ IdleRow /\ IdleMap /\ IdleAmount /\ IdleDate
    /\ IdleType /\ IdleCompanies /\ IdleFilter /\ IdleAsset /\ IdleParse
    /\ IdleClassify /\ IdleSenate /\ IdleAction

NextIngest ==
    \/ BadParams
    \/ NoClient
    \/ FetchRaises
    \/ IndexUnparseable
    \/ NoFilings
    \/ RunIngestion
    \/ RespondEmpty
    \/ StartUpsert
    \/ UpsertEventsChunk
    \/ UpsertEventsRaises
    \/ EventsDone
    \/ UpsertCompaniesChunk
    \/ UpsertCompaniesRaises
    \/ RespondInserted

SpecIngest == InitIngest /\ [][NextIngest]_vars

(***************************************************************************)
(* parse_amount_bucket as a function of the amount text, over the ranges   *)
(* and single amounts that the number texts of the model can spell.        *)
(***************************************************************************)
AmountTexts ==
    {<<a, "-", b>> : a \in DOMAIN AmountValue, b \in DOMAIN AmountValue}
        \cup {<<a>> : a \in DOMAIN AmountValue}

\* one call of parse_amount_bucket
Bucketize(i) ==
    /\ bucketed[i].state = "pending"
    /\ LET r == parse_amount_bucket(amount_text[i])
       IN bucketed' = [bucketed EXCEPT ![i] =
              [state |-> "returned", lo |-> r[1], hi |-> r[2], bucket |-> r[3]]]
    /\ UNCHANGED amount_text
    /\ UNCHANGED not_avars

InitAmount ==
    /\ amount_text \in [1..2 -> AmountTexts]
    /\ bucketed = [i \in 1..2 |-> [state |-> "pending"]]
    /\ since_date = NoDate
    /\ IdleFiling /\ IdleBatch /\ IdleRow /\ IdleMap /\ IdleIngest /\ IdleDate
    /\ IdleType /\ IdleCompanies /\ IdleFilter /\ IdleAsset /\ IdleParse
    /\ IdleClassify /\ IdleSenate /\ IdleAction

NextAmount == \E i \in 1..2 : Bucketize(i)

SpecAmount == InitAmount /\ [][NextAmount]_vars

(***************************************************************************)
(* parse_date as a function of the date text, over texts "A/B/Y" and       *)
(* "A-B-Y" with two-digit and four-digit years.                            *)
(***************************************************************************)
DateTexts ==
    {DateText(sep, a, b, yy, 2) :
        sep \in {"/", "-"}, a \in {1, 3, 12, 13}, b \in {4, 29, 31},
        yy \in {0, 5, 49, 50, 68, 69, 95, 99}}
    \cup {DateText(sep, a, b, y, 4) :
        sep \in {"/", "-"}, a \in {3, 13}, b \in {4, 31}, y \in {1995, 2005}}

\* one call of parse_date
ParseDate ==
    /\ parsed.state = "pending"
    /\ parsed' = [state |-> "returned", date |-> parse_date_fields(date_text)]
    /\ UNCHANGED date_text
    /\ UNCHANGED not_dvars

InitDate ==
    /\ date_text \in DateTexts
    /\ parsed = [state |-> "pending"]
    /\ since_date = NoDate
    /\ IdleFiling /\ IdleBatch /\ IdleRow /\ IdleMap /\ IdleIngest /\ IdleAmount
    /\ IdleType /\ IdleCompanies /\ IdleFilter /\ IdleAsset /\ IdleParse
    /\ IdleClassify /\ IdleSenate /\ IdleAction

NextDate == ParseDate

SpecDate == InitDate /\ [][NextDate]_vars

(***************************************************************************)
(* canonicalize_transaction_type as a function of the text, over texts     *)
(* made of two words and the whitespace around them.                       *)
(***************************************************************************)
TypeWords ==
    {"", "Buy", "purchase", "Acquisition", "bought", "Sell", "Sale", "disposition",
     "sold", "Exchange", "Exercise", "(Partial)", "WHOLESALE", "n/a"}

Gaps == {<<>>, <<" ">>, <<"nbsp", " ">>, <<"tab">>}

RawValues == {Chars(a) \o gap \o Chars(b) : a \in TypeWords, b \in TypeWords, gap \in Gaps}

\* one call of canonicalize_transaction_type
Canonicalize ==
    /\ canonical = "pending"
    /\ canonical' = canonicalize_transaction_type(raw_value)
    /\ UNCHANGED raw_value
    /\ UNCHANGED not_tvars

InitType ==
    /\ raw_value \in RawValues
    /\ canonical = "pending"
    /\ since_date = NoDate
    /\ IdleFiling /\ IdleBatch /\ IdleRow /\ IdleMap /\ IdleIngest /\ IdleAmount
    /\ IdleDate /\ IdleCompanies /\ IdleFilter /\ IdleAsset /\ IdleParse
    /\ IdleClassify /\ IdleSenate /\ IdleAction

NextType == Canonicalize

SpecType == InitType /\ [][NextType]_vars

(***************************************************************************)
(* collect_company_records of normalization.py, one event at a time.       *)
(***************************************************************************)
Tickers == {"", "AAPL", "MSFT"}

CompanyNames == {"", "Apple", "Apple Inc."}

EventLists ==
    UNION {[1..n -> [ticker : Tickers, company_name : CompanyNames]] : n \in 0..MaxEvents}

\* companies.get(ticker): the position of the ticker's record, 0 for None
position(recs, ticker) ==
    IF \E k \in DOMAIN recs : recs[k].ticker = ticker
    THEN CHOOSE k \in DOMAIN recs : recs[k].ticker = ticker
    ELSE 0

CompanyRecord(ticker, name) == [ticker |-> ticker, name |-> name]

Looping == ev_idx >= 1 /\ ev_idx <= Len(events)

\* lines 215-217: the event has no ticker
SkipNoTicker ==
    /\ Looping
    /\ events[ev_idx].ticker = ""
    /\ ev_idx' = ev_idx + 1
    /\ UNCHANGED <<events, companies, company_rows>>
    /\ UNCHANGED not_cvars

\* lines 219-227: the first event of a ticker
AddCompany ==
    /\ Looping
    /\ events[ev_idx].ticker # ""
    /\ position(companies, events[ev_idx].ticker) = 0
    /\ companies' = Append(companies, CompanyRecord(events[ev_idx].ticker,
                                                    events[ev_idx].company_name))
    /\ ev_idx' = ev_idx + 1
    /\ UNCHANGED <<events, company_rows>>
    /\ UNCHANGED not_cvars

\* mutant: a later non-empty name replaces the one already kept
FillName_Overwrites ==
    /\ Looping
    /\ events[ev_idx].ticker # ""
    /\ position(companies, events[ev_idx].ticker) # 0
    /\ events[ev_idx].company_name # ""
    /\ companies' = [companies EXCEPT ![position(companies, events[ev_idx].ticker)] =
           CompanyRecord(events[ev_idx].ticker, events[ev_idx].company_name)]
    /\ ev_idx' = ev_idx + 1
    /\ UNCHANGED <<events, company_rows>>
    /\ UNCHANGED not_cvars

\* lines 228-234: the record has no name yet and the event brings one
FillName ==
    /\ Looping
    /\ events[ev_idx].ticker # ""
    /\ position(companies, events[ev_idx].ticker) # 0
    /\ companies[position(companies, events[ev_idx].ticker)].name = ""
    /\ events[ev_idx].company_name # ""
    /\ companies' = [companies EXCEPT ![position(companies, events[ev_idx].ticker)] =
           CompanyRecord(events[ev_idx].ticker, events[ev_idx].company_name)]
    /\ ev_idx' = ev_idx + 1
    /\ UNCHANGED <<events, company_rows>>
    /\ UNCHANGED not_cvars

\* neither branch: the record is left as it is
KeepCompany ==
    /\ Looping
    /\ events[ev_idx].ticker # ""
    /\ position(companies, events[ev_idx].ticker) # 0
    /\ ~(/\ companies[position(companies, events[ev_idx].ticker)].name = ""
         /\ events[ev_idx].company_name # "")
    /\ ev_idx' = ev_idx + 1
    /\ UNCHANGED <<events, companies, company_rows>>
    /\ UNCHANGED not_cvars

\* line 236: return list(companies.values())
ReturnCompanies ==
    /\ ev_idx = Len(events) + 1
    /\ company_rows' = companies
    /\ ev_idx' = 0
    /\ UNCHANGED <<events, companies>>
    /\ UNCHANGED not_cvars

InitCompanies ==
    /\ events \in EventLists
    /\ ev_idx = 1
    /\ companies = <<>>
    /\ company_rows = <<>>
    /\ since_date = NoDate
    /\ IdleFiling /\ IdleBatch /\ IdleRow /\ IdleMap /\ IdleIngest /\ IdleAmount
    /\ IdleDate /\ IdleType /\ IdleFilter /\ IdleAsset /\ IdleParse
    /\ IdleClassify /\ IdleSenate /\ IdleAction

NextCompanies ==
    \/ SkipNoTicker
    \/ AddCompany
    \/ FillName
    \/ KeepCompany
    \/ ReturnCompanies

SpecCompanies == InitCompanies /\ [][NextCompanies]_vars

(***************************************************************************)
(* filter_filings, one filing at a time.                                   *)
(***************************************************************************)
Filing(first, last, ft, state_dst, filing_date) ==
    [first |-> first, last |-> last, filing_type |-> ft, state_dst |-> state_dst,
     filing_date |-> filing_date]

FilingPool ==
    {Filing("Jane", "Doe", "P", "CA12", 1), Filing("JANE", "DOE", "p", "CA12", 2),
     Filing("Jane", "Roe", "P", "TX03", 2), Filing("Jane", "Doe", "C", "TX03", 3),
     Filing("jane", "doe", "P", "ca12", 3), Filing("Doe", "Jane", "A", "CA12", 2)}

Indexes == UNION {[1..n -> FilingPool] : n \in 0..MaxIndex}

CriteriaSets ==
    [since : {NoDate, 2}, until : {NoDate, 2},
     names : {Absent, Given(<<>>), Given(<<<<"DOE", "jane">>>>),
              Given(<<<<"Smith", "Al">>, <<"roe", "JANE">>>>)},
     filing_types : {Absent, Given(<<>>), Given(<<"p">>), Given(<<"C", "A">>)},
     states : {Absent, Given(<<>>), Given(<<"CA12">>)}]

\* str.lower() and str.upper() on the names and filing types of the model
str_lower(w) ==
    CASE w \in {"Jane", "JANE", "jane"} -> "jane"
      [] w \in {"Doe", "DOE", "doe"} -> "doe"
      [] w \in {"Roe", "roe"} -> "roe"
      [] w = "Smith" -> "smith"
      [] w = "Al" -> "al"

str_upper(w) ==
    CASE w \in {"P", "p"} -> "P"
      [] w = "C" -> "C"
      [] w = "A" -> "A"

\* truth value of an optional list: None and [] are both false
Truthy(arg) == arg.given /\ arg.items # <<>>

Filtering == fl_idx >= 1 /\ fl_idx <= Len(index)

\* lines 715-716
too_early(f) == criteria.since # NoDate /\ f.filing_date < criteria.since

\* lines 717-718
too_late(f) == criteria.until # NoDate /\ f.filing_date > criteria.until

\* lines 721-729: `for last, first in names`
name_mismatch(f) ==
    /\ Truthy(criteria.names)
    /\ ~\E k \in DOMAIN criteria.names.items :
           /\ str_lower(f.last) = str_lower(criteria.names.items[k][1])
           /\ str_lower(f.first) = str_lower(criteria.names.items[k][2])

\* mutant: the filing type is compared as written
type_mismatch_case_sensitive(f) ==
    /\ Truthy(criteria.filing_types)
    /\ f.filing_type \notin
           {criteria.filing_types.items[k] : k \in DOMAIN criteria.filing_types.items}

\* lines 732-733
type_mismatch(f) ==
    /\ Truthy(criteria.filing_types)
    /\ str_upper(f.filing_type) \notin
           {str_upper(criteria.filing_types.items[k]) :
                k \in DOMAIN criteria.filing_types.items}

\* lines 736-737
state_mismatch(f) ==
    /\ Truthy(criteria.states)
    /\ f.state_dst \notin {criteria.states.items[k] : k \in DOMAIN criteria.states.items}

\* a `continue` of the loop body
SkipFiling ==
    /\ Filtering
    /\ \/ too_early(index[fl_idx])
       \/ too_late(index[fl_idx])
       \/ name_mismatch(index[fl_idx])
       \/ type_mismatch(index[fl_idx])
       \/ state_mismatch(index[fl_idx])
    /\ fl_idx' = fl_idx + 1
    /\ UNCHANGED <<index, criteria, filtered, index0>>
    /\ UNCHANGED not_gvars

\* line 739: filtered.append(filing)
KeepFiling ==
    /\ Filtering
    /\ ~too_early(index[fl_idx])
    /\ ~too_late(index[fl_idx])
    /\ ~name_mismatch(index[fl_idx])
    /\ ~type_mismatch(index[fl_idx])
    /\ ~state_mismatch(index[fl_idx])
    /\ filtered' = Append(filtered, index[fl_idx])
    /\ fl_idx' = fl_idx + 1
    /\ UNCHANGED <<index, criteria, index0>>
    /\ UNCHANGED not_gvars

\* line 741
ReturnFiltered ==
    /\ fl_idx = Len(index) + 1
    /\ fl_idx' = 0
    /\ UNCHANGED <<index, criteria, filtered, index0>>
    /\ UNCHANGED not_gvars

InitFilter ==
    /\ index \in Indexes
    /\ criteria \in CriteriaSets
    /\ fl_idx = 1
    /\ filtered = <<>>
    /\ index0 = index
    /\ since_date = NoDate
    /\ IdleFiling /\ IdleBatch /\ IdleRow /\ IdleMap /\ IdleIngest /\ IdleAmount
    /\ IdleDate /\ IdleType /\ IdleCompanies /\ IdleAsset /\ IdleParse
    /\ IdleClassify /\ IdleSenate /\ IdleAction

NextFilter ==
    \/ SkipFiling
    \/ KeepFiling
    \/ ReturnFiltered

SpecFilter == InitFilter /\ [][NextFilter]_vars

(***************************************************************************)
(* classify_asset_type as a function of the asset text and the ticker.     *)
(***************************************************************************)
\* str.upper() on one character of a ticker
upper(c) == CASE c = "b" -> "B" [] c = "t" -> "T" [] c = "c" -> "C" [] OTHER -> c

to_upper(q) == [k \in DOMAIN q |-> upper(q[k])]

OPTION_KEYWORDS ==
    {Chars("call"), Chars("put"), Chars("option"), Chars("strike"), Chars("expiry"),
     Chars("expire")}

\* a sample of Config.CRYPTO_SYMBOLS
CRYPTO_SYMBOLS == {Chars("BTC"), Chars("ETH")}

CRYPTO_KEYWORDS ==
    {Chars("crypto"), Chars("bitcoin"), Chars("ethereum"), Chars("digital asset")}

FUND_KEYWORDS == {Chars("mutual fund"), Chars("index fund")}

BOND_KEYWORDS == {Chars("bond"), Chars("treasury"), Chars("note"), Chars("bill")}

\* Config.ETF_PATTERNS, lower-cased
ETF_PATTERNS ==
    {Chars("etf"), Chars("fund"), Chars("index"), Chars("trust"), Chars("spdr"),
     Chars("ishares"), Chars("vanguard")}

\* any(kw in text for kw in keywords)
any_in(keywords, text) == \E kw \in keywords : contains(text, kw)

\* OPTION_RE.search: some text, whitespace, "call" or "put" with an optional
\* "s", whitespace (case-insensitive; the rest of the pattern is optional)
option_pattern(text) ==
    \E i \in 2..Len(text) :
        \E kw \in {Chars("call"), Chars("put")} :
            \E plural \in {<<>>, <<"s">>} :
                LET piece == <<" ">> \o kw \o plural \o <<" ">>
                IN /\ i + Len(piece) - 1 <= Len(text)
                   /\ SubSeq(to_lower(text), i, i + Len(piece) - 1) = piece

\* mutant: the ETF rule is tried before the mutual fund and bond rules
classify_asset_type_etf_early(asset_str, ticker) ==
    LET asset_lower == to_lower(asset_str)
        ticker_upper == to_upper(ticker)
    IN IF any_in(OPTION_KEYWORDS, asset_lower) THEN "OPTION"
       ELSE IF option_pattern(asset_str) THEN "OPTION"
       ELSE IF ticker_upper \in CRYPTO_SYMBOLS THEN "CRYPTO"
       ELSE IF any_in(CRYPTO_KEYWORDS, asset_lower) THEN "CRYPTO"
       ELSE IF any_in(ETF_PATTERNS, asset_lower) THEN "ETF"
       ELSE IF Len(ticker_upper) = 4 /\ ticker_upper[4] = "F" THEN "ETF"
       ELSE IF any_in(FUND_KEYWORDS, asset_lower) THEN "MUTUAL_FUND"
       ELSE IF any_in(BOND_KEYWORDS, asset_lower) THEN "BOND"
       ELSE IF ticker # <<>> THEN "STOCK" ELSE "OTHER"

\* classify_asset_type(asset_str, ticker)
classify_asset_type(asset_str, ticker) ==
    LET asset_lower == to_lower(asset_str)
        ticker_upper == to_upper(ticker)
    IN IF any_in(OPTION_KEYWORDS, asset_lower) THEN "OPTION"
       ELSE IF option_pattern(asset_str) THEN "OPTION"
       ELSE IF ticker_upper \in CRYPTO_SYMBOLS THEN "CRYPTO"
       ELSE IF any_in(CRYPTO_KEYWORDS, asset_lower) THEN "CRYPTO"
       ELSE IF any_in(FUND_KEYWORDS, asset_lower) THEN "MUTUAL_FUND"
       ELSE IF any_in(BOND_KEYWORDS, asset_lower) THEN "BOND"
       ELSE IF any_in(ETF_PATTERNS, asset_lower) THEN "ETF"
       ELSE IF Len(ticker_upper) = 4 /\ ticker_upper[4] = "F" THEN "ETF"
       ELSE IF ticker # <<>> THEN "STOCK" ELSE "OTHER"

AssetWords ==
    {"", "Apple", "Bitcoin", "Call", "Computer", "Index", "Fund", "Mutual", "Treasury",
     "ETF", "Trust", "Inc."}

AssetTexts == {Chars(a) \o <<" ">> \o Chars(b) : a \in AssetWords, b \in AssetWords}

AssetTickers == {Chars(""), Chars("AAPL"), Chars("BTC"), Chars("btc"), Chars("SCHF")}

\* one call of classify_asset_type
ClassifyAsset ==
    /\ asset_type = "pending"
    /\ asset_type' = classify_asset_type(asset_args.asset_str, asset_args.ticker)
    /\ UNCHANGED asset_args
    /\ UNCHANGED not_kvars

InitAsset ==
    /\ asset_args \in [asset_str : AssetTexts, ticker : AssetTickers]
    /\ asset_type = "pending"
    /\ since_date = NoDate
    /\ IdleFiling /\ IdleBatch /\ IdleRow /\ IdleMap /\ IdleIngest /\ IdleAmount
    /\ IdleDate /\ IdleType /\ IdleCompanies /\ IdleFilter /\ IdleParse
    /\ IdleClassify /\ IdleSenate /\ IdleAction

NextAsset == ClassifyAsset

SpecAsset == InitAsset /\ [][NextAsset]_vars

(***************************************************************************)
(* PDFProcessor.parse_pdf_for_trades on one document: the choice of the    *)
(* extraction strategy and the loop over the rows.  What a strategy        *)
(* returns for the document is the environment's choice, fixed at the      *)
(* start; each strategy catches its own exceptions and returns the rows it *)
(* has.                                                                    *)
(***************************************************************************)
PdfTypes == {"PTR", "FD", "UNKNOWN"}

\* the raw rows a strategy may return: none, one or MaxRows of them, each
\* marked with the strategy it came from
RowsOf(s) ==
    {[k \in 1..n |-> [by |-> s, row |-> k]] : n \in 0..MaxRows}

\* line 582: raw_rows = self.extract_transactions_region(pdf_bytes)
ExtractRegion ==
    /\ parse_pc = "classified" /\ pdf_type = "FD"
    /\ raw_rows' = extracted["transactions_region"]
    /\ invoked' = Append(invoked, "transactions_region")
    /\ parse_pc' = "after_region"
    /\ UNCHANGED <<pdf_type, extracted, fed>>
    /\ UNCHANGED not_pvars

\* lines 583-584 and 588: raw_rows = self.extract_tables_pdfplumber(pdf_bytes)
ExtractPdfplumber ==
    /\ \/ parse_pc = "classified" /\ pdf_type # "FD"
       \/ parse_pc = "after_region" /\ raw_rows = <<>>
    /\ raw_rows' = extracted["pdfplumber"]
    /\ invoked' = Append(invoked, "pdfplumber")
    /\ parse_pc' = "after_pdfplumber"
    /\ UNCHANGED <<pdf_type, extracted, fed>>
    /\ UNCHANGED not_pvars

\* mutant: the secondary strategy runs whatever the primary returned
ExtractCamelot_Always ==
    /\ parse_pc = "after_pdfplumber"
    /\ raw_rows' = extracted["camelot"]
    /\ invoked' = Append(invoked, "camelot")
    /\ parse_pc' = "rows"
    /\ UNCHANGED <<pdf_type, extracted, fed>>
    /\ UNCHANGED not_pvars

\* lines 585-586 and 589-590: raw_rows = self.extract_tables_camelot(pdf_bytes)
ExtractCamelot ==
    /\ parse_pc = "after_pdfplumber" /\ raw_rows = <<>>
    /\ raw_rows' = extracted["camelot"]
    /\ invoked' = Append(invoked, "camelot")
    /\ parse_pc' = "rows"
    /\ UNCHANGED <<pdf_type, extracted, fed>>
    /\ UNCHANGED not_pvars

\* lines 593-594: the next (idx, row) of enumerate(raw_rows) goes to
\* _parse_trade_row with line_no = idx
FeedRow ==
    /\ \/ parse_pc = "rows"
       \/ parse_pc \in {"after_region", "after_pdfplumber"} /\ raw_rows # <<>>
    /\ Len(fed) < Len(raw_rows)
    /\ fed' = Append(fed, [line_no |-> Len(fed), row |-> raw_rows[Len(fed) + 1]])
    /\ parse_pc' = "rows"
    /\ UNCHANGED <<pdf_type, extracted, invoked, raw_rows>>
    /\ UNCHANGED not_pvars

\* line 599: the loop is over, return trades
ReturnTrades ==
    /\ \/ parse_pc = "rows"
       \/ parse_pc \in {"after_region", "after_pdfplumber"} /\ raw_rows # <<>>
    /\ Len(fed) = Len(raw_rows)
    /\ parse_pc' = "returned"
    /\ UNCHANGED <<pdf_type, extracted, invoked, raw_rows, fed>>
    /\ UNCHANGED not_pvars

InitParse ==
    /\ pdf_type \in PdfTypes
    /\ extracted \in [Strategies -> UNION {RowsOf(s) : s \in Strategies}]
    /\ \A s \in Strategies : extracted[s] \in RowsOf(s)
    /\ parse_pc = "classified"
    /\ invoked = <<>>
    /\ raw_rows = <<>>
    /\ fed = <<>>
    /\ since_date = NoDate
    /\ IdleFiling /\ IdleBatch /\ IdleRow /\ IdleMap /\ IdleIngest /\ IdleAmount
    /\ IdleDate /\ IdleType /\ IdleCompanies /\ IdleFilter /\ IdleAsset
    /\ IdleClassify /\ IdleSenate /\ IdleAction

NextParse ==
    \/ ExtractRegion
    \/ ExtractPdfplumber
    \/ ExtractCamelot
    \/ FeedRow
    \/ ReturnTrades

SpecParse == InitParse /\ [][NextParse]_vars

(***************************************************************************)
(* PDFProcessor.classify_pdf, called by two worker threads that share the  *)
(* processor and its _classification_cache.  A dictionary operation is one *)
(* step; opening the document and reading its first page is another.       *)
(***************************************************************************)
ClassifyWorkers == 1..2

\* the documents by what classify_pdf finds in them: the first page's text
\* names a periodic transaction report, a financial disclosure, both or
\* neither; the document has no page; pdfplumber cannot open the bytes
PdfContents == {"ptr", "fd", "both", "neither", "no_pages", "not_a_pdf"}

Uncached == [d \in DocIds |-> "absent"]

CallEvent(w) == [kind |-> "call", worker |-> w, doc_id |-> cl_doc[w], value |-> "-"]

StoreEvent(w, v) == [kind |-> "store", worker |-> w, doc_id |-> cl_doc[w], value |-> v]

ReturnEvent(w, v) == [kind |-> "return", worker |-> w, doc_id |-> cl_doc[w], value |-> v]

\* lines 441-446: the classification of the first page's text
classify_text(content) ==
    IF content \in {"ptr", "both"} THEN "PTR"
    ELSE IF content = "fd" THEN "FD"
    ELSE "UNKNOWN"

\* a worker enters classify_pdf(pdf_bytes, doc_id)
CallClassify(w) ==
    /\ cl_pc[w] = "idle" /\ cl_calls[w] < MaxCalls
    /\ cl_calls' = [cl_calls EXCEPT ![w] = @ + 1]
    /\ cl_pc' = [cl_pc EXCEPT ![w] = "check"]
    /\ cl_log' = Append(cl_log, CallEvent(w))
    /\ UNCHANGED <<classification_cache, cl_doc, cl_bytes, classification>>
    /\ UNCHANGED not_qvars

\* lines 429-430: the id is in the cache, return the entry
CacheHitClassify(w) ==
    /\ cl_pc[w] = "check"
    /\ classification_cache[cl_doc[w]] # "absent"
    /\ cl_pc' = [cl_pc EXCEPT ![w] = "idle"]
    /\ cl_log' = Append(cl_log, ReturnEvent(w, classification_cache[cl_doc[w]]))
    /\ UNCHANGED <<classification_cache, cl_doc, cl_bytes, classification, cl_calls>>
    /\ UNCHANGED not_qvars

\* line 429: the id is not in the cache
CacheMissClassify(w) ==
    /\ cl_pc[w] = "check"
    /\ classification_cache[cl_doc[w]] = "absent"
    /\ cl_pc' = [cl_pc EXCEPT ![w] = "open"]
    /\ UNCHANGED <<classification_cache, cl_doc, cl_bytes, classification, cl_calls,
                   cl_log>>
    /\ UNCHANGED not_qvars

\* lines 435, 451-453: pdfplumber raises on the bytes, return "UNKNOWN"
OpenRaises(w) ==
    /\ cl_pc[w] = "open"
    /\ cl_bytes[w] = "not_a_pdf"
    /\ cl_pc' = [cl_pc EXCEPT ![w] = "idle"]
    /\ cl_log' = Append(cl_log, ReturnEvent(w, "UNKNOWN"))
    /\ UNCHANGED <<classification_cache, cl_doc, cl_bytes, classification, cl_calls>>
    /\ UNCHANGED not_qvars

\* lines 436-437: the document has no page, return "UNKNOWN"
NoPages(w) ==
    /\ cl_pc[w] = "open"
    /\ cl_bytes[w] = "no_pages"
    /\ cl_pc' = [cl_pc EXCEPT ![w] = "idle"]
    /\ cl_log' = Append(cl_log, ReturnEvent(w, "UNKNOWN"))
    /\ UNCHANGED <<classification_cache, cl_doc, cl_bytes, classification, cl_calls>>
    /\ UNCHANGED not_qvars

\* lines 439-446: read the first page and classify its text
ClassifyFirstPage(w) ==
    /\ cl_pc[w] = "open"
    /\ cl_bytes[w] \notin {"not_a_pdf", "no_pages"}
    /\ classification' = [classification EXCEPT ![w] = classify_text(cl_bytes[w])]
    /\ cl_pc' = [cl_pc EXCEPT ![w] = "store"]
    /\ UNCHANGED <<classification_cache, cl_doc, cl_bytes, cl_calls, cl_log>>
    /\ UNCHANGED not_qvars

\* lines 448-449: write the cache entry and return the classification
StoreClassification(w) ==
    /\ cl_pc[w] = "store"
    /\ classification_cache' =
           [classification_cache EXCEPT ![cl_doc[w]] = classification[w]]
    /\ cl_pc' = [cl_pc EXCEPT ![w] = "idle"]
    /\ cl_log' = cl_log \o <<StoreEvent(w, classification[w]),
                             ReturnEvent(w, classification[w])>>
    /\ UNCHANGED <<cl_doc, cl_bytes, classification, cl_calls>>
    /\ UNCHANGED not_qvars

InitClassify ==
    /\ classification_cache = Uncached
    /\ cl_doc \in [ClassifyWorkers -> DocIds]
    /\ cl_bytes \in [ClassifyWorkers -> PdfContents]
    /\ cl_pc = [w \in ClassifyWorkers |-> "idle"]
    /\ classification = [w \in ClassifyWorkers |-> "UNKNOWN"]
    /\ cl_calls = [w \in ClassifyWorkers |-> 0]
    /\ cl_log = <<>>
    /\ since_date = NoDate
    /\ IdleFiling /\ IdleBatch /\ IdleRow /\ IdleMap /\ IdleIngest /\ IdleAmount
    /\ IdleDate /\ IdleType /\ IdleCompanies /\ IdleFilter /\ IdleAsset /\ IdleParse
    /\ IdleSenate /\ IdleAction

NextClassify ==
    \E w \in ClassifyWorkers :
        \/ CallClassify(w)
        \/ CacheHitClassify(w)
        \/ CacheMissClassify(w)
        \/ OpenRaises(w)
        \/ NoPages(w)
        \/ ClassifyFirstPage(w)
        \/ StoreClassification(w)

SpecClassify == InitClassify /\ [][NextClassify]_vars

(***************************************************************************)
(* The Senate scraper: process_senator with search_filings through         *)
(* SenateEFDScraper._search_with_requests and the downloads of             *)
(* SenatePDFProcessor.download_pdf.  The history net_log keeps every       *)
(* network request and every time.sleep in the order they happen.          *)
(* max_results is MaxResults here (1000 in the call of process_senator).   *)
(***************************************************************************)
Request(what) == [kind |-> "request", what |-> what, secs |-> 0]

Sleep == [kind |-> "sleep", what |-> "time.sleep", secs |-> RATE_LIMIT_DELAY]

\* filings[:max_results]
truncated(n) == IF n > MaxResults THEN MaxResults ELSE n

\* lines 953-963: the next report type, search_filings is called
StartSearch ==
    /\ sen_pc = "report_types" /\ report_idx < report_types
    /\ sen_pc' = "home"
    /\ sen_filings' = 0
    /\ sen_idx' = 0
    /\ UNCHANGED <<report_types, report_idx, next_page_url, net_log>>
    /\ UNCHANGED not_svars

\* lines 277-278: GET of the search page; it answers or the request raises
\* (lines 321-323: the search returns [])
HomeRequest ==
    /\ sen_pc = "home"
    /\ net_log' = Append(net_log, Request("home"))
    /\ \E ok \in BOOLEAN : sen_pc' = IF ok THEN "before_post" ELSE "filings"
    /\ UNCHANGED <<report_types, report_idx, sen_filings, next_page_url, sen_idx>>
    /\ UNCHANGED not_svars

\* line 287
SleepBeforePost ==
    /\ sen_pc = "before_post"
    /\ net_log' = Append(net_log, Sleep)
    /\ sen_pc' = "post"
    /\ UNCHANGED <<report_types, report_idx, sen_filings, next_page_url, sen_idx>>
    /\ UNCHANGED not_svars

\* lines 288-297: POST of the search, the first page of results is parsed
PostRequest ==
    /\ sen_pc = "post"
    /\ net_log' = Append(net_log, Request("search"))
    /\ \/ /\ \E n \in 0..MaxResults : sen_filings' = n
          /\ \E more \in BOOLEAN : next_page_url' = more
          /\ sen_pc' = "pages"
       \/ /\ sen_filings' = 0
          /\ sen_pc' = "filings"
          /\ UNCHANGED next_page_url
    /\ UNCHANGED <<report_types, report_idx, sen_idx>>
    /\ UNCHANGED not_svars

\* lines 301-304, 326: the loop ends, filings[:max_results] is returned
LastPage ==
    /\ sen_pc = "pages"
    /\ ~(sen_filings < MaxResults /\ next_page_url)
    /\ sen_filings' = truncated(sen_filings)
    /\ sen_pc' = "filings"
    /\ UNCHANGED <<report_types, report_idx, next_page_url, sen_idx, net_log>>
    /\ UNCHANGED not_svars

\* line 306
SleepBeforePage ==
    /\ sen_pc = "pages"
    /\ sen_filings < MaxResults /\ next_page_url
    /\ net_log' = Append(net_log, Sleep)
    /\ sen_pc' = "page"
    /\ UNCHANGED <<report_types, report_idx, sen_filings, next_page_url, sen_idx>>
    /\ UNCHANGED not_svars

\* lines 307-317: GET of the next page; an empty page ends the loop, a
\* failed request ends the search with []
PageRequest ==
    /\ sen_pc = "page"
    /\ net_log' = Append(net_log, Request("page"))
    /\ \/ /\ \E n \in 1..MaxResults : sen_filings' = sen_filings + n
          /\ \E more \in BOOLEAN : next_page_url' = more
          /\ sen_pc' = "pages"
       \/ /\ sen_filings' = truncated(sen_filings)
          /\ sen_pc' = "filings"
          /\ UNCHANGED next_page_url
       \/ /\ sen_filings' = 0
          /\ sen_pc' = "filings"
          /\ UNCHANGED next_page_url
    /\ UNCHANGED <<report_types, report_idx, sen_idx>>
    /\ UNCHANGED not_svars

\* lines 967-969: the filing is not a periodic transaction report
SkipNotPtr ==
    /\ sen_pc = "filings" /\ sen_idx < sen_filings
    /\ sen_idx' = sen_idx + 1
    /\ UNCHANGED <<sen_pc, report_types, report_idx, sen_filings, next_page_url, net_log>>
    /\ UNCHANGED not_svars

\* lines 588-591, 972, 978-983: the document is in the cache, it is parsed
DownloadCached ==
    /\ sen_pc = "filings" /\ sen_idx < sen_filings
    /\ sen_pc' = "rate_limit"
    /\ UNCHANGED <<report_types, report_idx, sen_filings, next_page_url, sen_idx, net_log>>
    /\ UNCHANGED not_svars

\* lines 600-613, 972, 978-983: the document is downloaded and parsed
DownloadSucceeds ==
    /\ sen_pc = "filings" /\ sen_idx < sen_filings
    /\ net_log' = Append(net_log, Request("pdf"))
    /\ sen_pc' = "rate_limit"
    /\ UNCHANGED <<report_types, report_idx, sen_filings, next_page_url, sen_idx>>
    /\ UNCHANGED not_svars

\* lines 600-617, 973-975: the request raises or the content is not a PDF,
\* download_pdf returns None: continue
DownloadFails ==
    /\ sen_pc = "filings" /\ sen_idx < sen_filings
    /\ net_log' = Append(net_log, Request("pdf"))
    /\ sen_idx' = sen_idx + 1
    /\ UNCHANGED <<sen_pc, report_types, report_idx, sen_filings, next_page_url>>
    /\ UNCHANGED not_svars

\* line 986: time.sleep(Config.RATE_LIMIT_DELAY) at the end of the loop body
RateLimit ==
    /\ sen_pc = "rate_limit"
    /\ net_log' = Append(net_log, Sleep)
    /\ sen_idx' = sen_idx + 1
    /\ sen_pc' = "filings"
    /\ UNCHANGED <<report_types, report_idx, sen_filings, next_page_url>>
    /\ UNCHANGED not_svars

\* line 966: the filings of this report type are done
NextReportType ==
    /\ sen_pc = "filings" /\ sen_idx >= sen_filings
    /\ report_idx' = report_idx + 1
    /\ sen_pc' = "report_types"
    /\ UNCHANGED <<report_types, sen_filings, next_page_url, sen_idx, net_log>>
    /\ UNCHANGED not_svars

\* line 988
ReturnSenator ==
    /\ sen_pc = "report_types" /\ report_idx = report_types
    /\ sen_pc' = "returned"
    /\ UNCHANGED <<report_types, report_idx, sen_filings, next_page_url, sen_idx, net_log>>
    /\ UNCHANGED not_svars

InitSenate ==
    /\ sen_pc = "report_types"
    /\ report_types \in 1..MaxReportTypes
    /\ report_idx = 0
    /\ sen_filings = 0
    /\ next_page_url = FALSE
    /\ sen_idx = 0
    /\ net_log = <<>>
    /\ since_date = NoDate
    /\ IdleFiling /\ IdleBatch /\ IdleRow /\ IdleMap /\ IdleIngest /\ IdleAmount
    /\ IdleDate /\ IdleType /\ IdleCompanies /\ IdleFilter /\ IdleAsset /\ IdleParse
    /\ IdleClassify /\ IdleAction

NextSenate ==
    \/ StartSearch
    \/ HomeRequest
    \/ SleepBeforePost
    \/ PostRequest
    \/ LastPage
    \/ SleepBeforePage
    \/ PageRequest
    \/ SkipNotPtr
    \/ DownloadCached
    \/ DownloadSucceeds
    \/ DownloadFails
    \/ RateLimit
    \/ NextReportType
    \/ ReturnSenator

SpecSenate == InitSenate /\ [][NextSenate]_vars

(***************************************************************************)
(* One House row end to end: _parse_trade_row builds the Trade,            *)
(* transaction_event_from_house_trade builds the event from it.            *)
(***************************************************************************)
\* mutant: the type is read from the attribute the Senate mapper reads,
\* which a House Trade does not have
house_transaction_type_of_type_attr(trade) ==
    canonicalize_transaction_type(<<>>)

\* transaction_event_from_house_trade: transaction_type
house_transaction_type(trade) ==
    canonicalize_transaction_type(Chars(trade.action))

\* the action cells: the single-letter codes, every keyword of
\* TRADE_ACTIONS, a word that holds a keyword without being one, no text
EventActionCells ==
    {<<"p">>, <<"b">>, <<"s">>, <<"e">>, <<"purchased">>, <<>>}
        \cup {<<w>> : w \in TRADE_ACTIONS}

EventRows ==
    {[c \in {"transaction date", "type", "amount", "asset"} |->
        CASE c = "transaction date" -> d [] c = "type" -> a
          [] c = "amount" -> m [] c = "asset" -> x] :
        d \in {<<"01/15/2024">>, <<"n/a">>}, a \in EventActionCells,
        m \in {<<"$1,001", "-", "$15,000">>, <<"n/a">>},
        x \in {<<"apple", "inc.", "(AAPL)">>, <<>>}}

\* _parse_trade_row on the row
NormalizeRow ==
    /\ house_trade = Pending
    /\ house_trade' = parse_trade_row(house_row, "d1", "Jane Doe", 0, set_order)
    /\ UNCHANGED <<house_row, set_order, house_event>>
    /\ UNCHANGED not_xvars

\* transaction_event_from_house_trade on the Trade
BuildEvent ==
    /\ house_trade.state = "trade"
    /\ house_event.state = "pending"
    /\ house_event' = [state |-> "event",
                       filing_id |-> house_trade.filing_id,
                       transaction_date |-> house_trade.date,
                       transaction_type |-> house_transaction_type(house_trade),
                       amount_lo |-> house_trade.amount_lo,
                       amount_hi |-> house_trade.amount_hi]
    /\ UNCHANGED <<house_row, set_order, house_trade>>
    /\ UNCHANGED not_xvars

InitAction ==
    /\ house_row \in EventRows
    /\ set_order \in SetOrders
    /\ house_trade = Pending
    /\ house_event = [state |-> "pending"]
    /\ since_date = NoDate
    /\ IdleFiling /\ IdleBatch /\ IdleRow /\ IdleMap /\ IdleIngest /\ IdleAmount
    /\ IdleDate /\ IdleType /\ IdleCompanies /\ IdleFilter /\ IdleAsset /\ IdleParse
    /\ IdleClassify /\ IdleSenate

NextAction ==
    \/ NormalizeRow
    \/ BuildEvent

SpecAction == InitAction /\ [][NextAction]_vars

(***************************************************************************)
(* Properties of download_pdf, read off the history `log`.                 *)
(***************************************************************************)
Calls == 1..2

\* the requests of download_pdf call c, in the order issued
ReqsOf(c) == SelectSeq(log, LAMBDA e : e.kind = "req" /\ e.call = c)

\* the requests and sleeps of call c, in order
EventsOf(c) == SelectSeq(log, LAMBDA e : e.call = c)

SleepsOf(c) == SelectSeq(log, LAMBDA e : e.kind = "sleep" /\ e.call = c)

ReqsOn(c, u) == SelectSeq(ReqsOf(c), LAMBDA e : e.url = u)

\* the download_pdf call in progress has returned
Returned == pc \in {"ret", "done", "raised"}

\* C3: download_pdf retries a failing request with exponential backoff (each
\* sleep of a call doubles the one before) and issues at most MAX_RETRIES
\* requests on one URL before it returns None.
C3_AtMostMaxRetriesAttempts ==
    \A c \in Calls :
        /\ \A i \in 1..(Len(SleepsOf(c)) - 1) :
               SleepsOf(c)[i + 1].secs = 2 * SleepsOf(c)[i].secs
        /\ \A u \in {pdf_url(filing_type), alternate_pdf_url(filing_type)} :
               Len(ReqsOn(c, u)) <= MAX_RETRIES

\* C4: when the first request of a download_pdf call answers 404, the next
\* event of the call is a request to the other folder (no sleep in between),
\* and every later request of the call stays on that folder: the URL changes
\* once in the call and never again.
C4_SwitchOnceOn404 ==
    \A c \in Calls :
        (Len(ReqsOf(c)) >= 1 /\ ReqsOf(c)[1].status = "404") =>
            /\ Len(EventsOf(c)) >= 2 => EventsOf(c)[2].kind = "req"
            /\ \A i \in 2..Len(ReqsOf(c)) :
                   ReqsOf(c)[i].url = alt_url(ReqsOf(c)[1].url)
            /\ ReqsOf(c)[1].url # alt_url(ReqsOf(c)[1].url)

\* C4 witness: a call whose first request answered 404 and that then retried
\* the alternate URL until the retries ran out.
C4_Witness ==
    /\ pc = "ret" /\ dcall = 1 /\ pdf_bytes = "None"
    /\ ReqsOf(1)[1].status = "404"
    /\ Len(ReqsOf(1)) = MAX_RETRIES + 1
    /\ ReqsOf(1)[2].status = "404"

\* the last request of the current call failed with no retry left
RetriesExhausted ==
    /\ Len(ReqsOf(dcall)) >= 1
    /\ LET last == ReqsOf(dcall)[Len(ReqsOf(dcall))]
       IN /\ last.retry = MAX_RETRIES
          /\ last.status \in {"404", "err"}

\* C5 (safety part): when download_pdf has returned, its value is the body or
\* None, never an exception in the caller; it is None exactly when the
\* retries are exhausted; the worker raises only out of parsing, with a
\* document in hand.
C5_ReturnsBytesOrNone ==
    /\ pc = "ret" => pdf_bytes \in {"None"} \cup Blobs
    /\ (pc = "ret" /\ RetriesExhausted) => pdf_bytes = "None"
    /\ (pc = "ret" /\ pdf_bytes = "None") => RetriesExhausted
    /\ pc = "raised" => pdf_bytes = "bytes"

\* C5: download_pdf is total: every call terminates and returns the body or
\* None, never an exception, and None once the retries are exhausted.
C5_Total ==
    /\ []C5_ReturnsBytesOrNone
    /\ \A c \in Calls :
           (dcall = c /\ pc = "call" /\ retry_count = 0) ~> (dcall = c /\ pc = "ret")

\* C5 witness: a call that used up every retry and returned None.
C5_Witness ==
    /\ pc = "ret" /\ pdf_bytes = "None" /\ RetriesExhausted
    /\ Len(SleepsOf(dcall)) = MAX_RETRIES

\* C6: with a cache directory, a blob stored for doc_id is returned at once
\* and no request is issued; a call returns without a request only that way;
\* the cache changes only in the step of a request for doc_id that answered
\* 200, and only at doc_id; so a call that returned None left the cache as it
\* found it.
C6_CacheStep ==
    /\ (pc = "call" /\ cache_dir /\ cache[doc_id] # "absent") =>
           (pc' = "ret" /\ pdf_bytes' = cache[doc_id] /\ log' = log /\ cache' = cache)
    /\ (pc = "call" /\ pc' = "ret") => (cache_dir /\ cache[doc_id] # "absent")
    /\ cache' # cache =>
           /\ cache_dir
           /\ Len(log') = Len(log) + 1
           /\ log'[Len(log')].kind = "req"
           /\ log'[Len(log')].status \in {"ok", "ok_empty"}
           /\ \A d \in DocIds \ {doc_id} : cache'[d] = cache[d]
           /\ cache'[doc_id] = pdf_bytes'

C6_CacheBeforeNetwork ==
    /\ [][C6_CacheStep]_vars
    /\ []((pc = "ret" /\ pdf_bytes = "None") => cache = cache0)
    /\ [](~cache_dir => \A d \in DocIds : cache[d] = "absent")

\* C6 witness: the second call of a filing answered from the cache, which
\* the first call filled, without a request of its own.
C6_Witness ==
    /\ pc = "ret" /\ dcall = 2 /\ cache_dir
    /\ Len(ReqsOf(2)) = 0 /\ Len(ReqsOf(1)) >= 1
    /\ pdf_bytes = cache[doc_id]

(***************************************************************************)
(* Properties of process_filing_batch.                                     *)
(***************************************************************************)
RangeOf(q) == {q[i] : i \in DOMAIN q}

\* the filings whose worker returned normally with a document
NonFailing == {f \in Batch : outcome[f].kind = "ok"}

Failing == {f \in Batch : outcome[f].kind \in {"nofile", "raised"}}

\* the valid trades of filing f: the trades of its document that pass the
\* since_date filter and the validator's four checks
ValidTradesOf(f) ==
    {t \in RangeOf(ParsedOf(f)) :
        /\ (since_date = NoDate \/ t.date >= since_date)
        /\ DATE_MIN <= t.date /\ t.date <= TODAY
        /\ t.amount_lo <= t.amount_hi
        /\ (t.ticker # "" \/ t.company # "")}

\* C1: partial-failure isolation: process_filing_batch never raises, and what
\* it returns holds every valid trade of every non-failing filing, each once,
\* and no trade of a failing filing.
C1_PartialFailureIsolation ==
    /\ batch_pc \in {"start", "pool", "returned"}
    /\ (batch_pc = "returned" /\ download_and_parse) =>
           /\ RangeOf(all_trades) = UNION {ValidTradesOf(f) : f \in NonFailing}
           /\ Len(all_trades) = Cardinality(RangeOf(all_trades))
           /\ \A i \in DOMAIN all_trades : all_trades[i].filing_id \notin Failing

\* C1 witness: of three filings the second could not be fetched, and the
\* batch returned the valid trades of the first and the third.
C1_Witness ==
    /\ batch_pc = "returned" /\ nfilings = 3
    /\ outcome[1].kind = "ok" /\ outcome[2].kind = "nofile" /\ outcome[3].kind = "ok"
    /\ Len(all_trades) = 2

\* C2 (safety part): no future is consumed twice, and when the batch has
\* returned every submitted filing has run to its end and was consumed once.
C2_EachOutcomeOnce ==
    /\ \A f \in Filings : consumed[f] <= 1
    /\ \A f \in Filings \ Batch : consumed[f] = 0
    /\ (batch_pc = "returned" /\ download_and_parse) =>
           \A f \in Batch : status[f] = "finished" /\ consumed[f] = 1

\* C2: the batch always completes: under any pattern of failing fetches and
\* raising workers process_filing_batch eventually returns, having consumed
\* the outcome of every submitted filing exactly once.
C2_BatchCompletes ==
    /\ []C2_EachOutcomeOnce
    /\ <>(batch_pc = "returned")

\* C2 witness: a full batch returned although filings could not be fetched
\* and workers raised.
C2_Witness ==
    /\ batch_pc = "returned" /\ nfilings = NumFilings
    /\ \E f \in Batch : outcome[f].kind = "nofile"
    /\ \E f \in Batch : outcome[f].kind = "raised"
    /\ \A f \in Batch : consumed[f] = 1

\* C9: at no moment are more than MAX_WORKERS filings being fetched or parsed.
C9_BoundedPool == Cardinality(Running) <= MAX_WORKERS

\* C9 witness: MAX_WORKERS filings are in progress while another one waits
\* in the pool's queue.
C9_Witness == Cardinality(Running) = MAX_WORKERS /\ Queued # {}

RECURSIVE BagOfSeq(_)
BagOfSeq(q) == IF q = <<>> THEN EmptyBag ELSE SetToBag({Head(q)}) (+) BagOfSeq(Tail(q))

\* the sum over the filings of S of what each one's worker returned
RECURSIVE ReturnedBag(_)
ReturnedBag(S) ==
    IF S = {} THEN EmptyBag
    ELSE LET x == CHOOSE y \in S : TRUE
         IN BagOfSeq(outcome[x].trades) (+) ReturnedBag(S \ {x})

\* C10: order independence: the multiset of trades returned is determined by
\* the filings' outcomes alone (the sum of what each worker returned),
\* whatever order the workers ran and completed in.
C10_OrderIndependent ==
    (batch_pc = "returned" /\ download_and_parse) =>
        BagOfSeq(all_trades) =
            ReturnedBag(NonFailing)

\* C10 witness: a batch whose result lists a later filing's trade before an
\* earlier filing's: the completion order was not the list order.
C10_Witness ==
    /\ batch_pc = "returned"
    /\ \E i, j \in DOMAIN all_trades :
           i < j /\ all_trades[i].filing_id > all_trades[j].filing_id

(***************************************************************************)
(* Properties of the row normalizer.                                       *)
(***************************************************************************)
\* C7: UID determinism: two invocations of _parse_trade_row on the same row,
\* filing_id, actor and line_no, in one run of the program or in two, either
\* both drop the row or both produce a Trade with the same action and the
\* same event_uid.
C7_UidDeterminism ==
    (res[1] # Pending /\ res[2] # Pending) =>
        \/ res[1] = Dropped /\ res[2] = Dropped
        \/ /\ res[1].state = "trade" /\ res[2].state = "trade"
           /\ res[1].action = res[2].action
           /\ res[1].event_uid = res[2].event_uid

(***************************************************************************)
(* Properties of the event mappers.                                        *)
(***************************************************************************)
BothMapped == event[1].state = "event" /\ event[2].state = "event"

\* C8: the canonical id depends only on the chamber and the event_uid: two
\* mapped events have the same id if and only if the same chamber's mapper
\* built them from trades with the same event_uid, whatever the politician_id.
C8_IdByChamberAndUid ==
    BothMapped =>
        (event[1].id = event[2].id <=>
            /\ src_trade[1].chamber = src_trade[2].chamber
            /\ src_trade[1].event_uid = src_trade[2].event_uid)

\* C8 witness: one House trade mapped twice with different politician ids
\* got one id.
C8_Witness ==
    /\ BothMapped
    /\ src_trade[1].chamber = "house" /\ src_trade[2].chamber = "house"
    /\ src_trade[1].event_uid = src_trade[2].event_uid
    /\ src_trade[1].politician_id # src_trade[2].politician_id
    /\ event[1].id = event[2].id

(***************************************************************************)
(* Properties of the top-level invocation.                                 *)
(***************************************************************************)
\* C11: a storage failure is all-or-nothing: when the invocation ended because
\* the store rejected a write, none of its events and none of its company rows
\* has been written.
C11_StoreFailureAllOrNothing ==
    (ingest_pc = "done" /\ failure = "store") =>
        (store_events = {} /\ store_companies = {})

\* C12: a failed ingestion is never reported as an empty success: a success
\* response with trades_found = 0 is given only when nothing failed, and every
\* failure ends in an error response.
C12_FailureNotEmptySuccess ==
    ingest_pc = "done" =>
        /\ (response.status = 200 /\ response.trades_found = 0) => failure = "none"
        /\ failure # "none" => (response.error /\ response.status >= 400)

(***************************************************************************)
(* Properties of parse_amount_bucket.                                      *)
(***************************************************************************)
BothBucketed == bucketed[1].state = "returned" /\ bucketed[2].state = "returned"

\* C13: bucket monotonicity: when the bounds (lo, hi) of one amount are both
\* at most the bounds (lo', hi') of another, the bucket assigned to the first
\* is at most the bucket assigned to the second.
C13_BucketMonotone ==
    (/\ BothBucketed
     /\ bucketed[1].lo <= bucketed[2].lo
     /\ bucketed[1].hi <= bucketed[2].hi) =>
        bucketed[1].bucket <= bucketed[2].bucket

\* the entries of the bucket table whose bounds, inclusive on both ends,
\* hold the range (lo, hi)
EntriesHolding(lo, hi) ==
    {k \in DOMAIN AMOUNT_BUCKETS :
        AMOUNT_BUCKETS[k][1] <= lo /\ lo <= hi /\ hi <= AMOUNT_BUCKETS[k][2]}

\* C14: an amount range that lies within the bounds of an entry of the bucket
\* table, bounds included, is assigned that entry's bucket.
C14_WithinBoundsMapsToBucket ==
    bucketed[1].state = "returned" =>
        \A k \in EntriesHolding(bucketed[1].lo, bucketed[1].hi) :
            bucketed[1].bucket = AMOUNT_BUCKETS[k][3]

(***************************************************************************)
(* Properties of the row normalizer.                                       *)
(***************************************************************************)
\* the numbers of a range text "A - B"
IsRangeText(cell) ==
    Len(cell) = 3 /\ cell[2] \in {"-", "to"} /\ IsNumber(cell[1]) /\ IsNumber(cell[3])

\* C15: every Trade the row normalizer produces has 0 <= amount_lo <=
\* amount_hi, and the bounds of a range text are its two numbers in
\* increasing order, however the text orders them.
C15_AmountBoundsOrdered ==
    \A i \in 1..2 :
        res[i].state = "trade" =>
            /\ 0 <= res[i].amount_lo
            /\ res[i].amount_lo <= res[i].amount_hi
            /\ IsRangeText(row["amount"]) =>
                  {res[i].amount_lo, res[i].amount_hi} =
                      {coerce_int(row["amount"][1]), coerce_int(row["amount"][3])}

\* C15 witness: a row whose amount text is reversed became a Trade with the
\* bounds swapped.
C15_Witness ==
    /\ res[1].state = "trade"
    /\ IsRangeText(row["amount"])
    /\ coerce_int(row["amount"][1]) > coerce_int(row["amount"][3])
    /\ res[1].amount_lo = coerce_int(row["amount"][3])
    /\ res[1].amount_hi = coerce_int(row["amount"][1])

\* the row's date, action and asset pass their gates and no cell holds an
\* excluded token
OtherwiseValid(i) ==
    /\ ~has_excluded_token(row_values(row))
    /\ parse_date(first_cell(row, DATE_COLUMNS)) # NoneDate
    /\ parse_action(row["type"], hash_order[i]) # ""
    /\ parse_asset(row["asset"]) # <<"", "">>

\* C16: a row whose amount is an "over $X" phrase and whose date, action and
\* asset are valid yields a Trade with amount_lo = X.
C16_OverPhrasePasses ==
    \A i \in 1..2 :
        (/\ res[i] # Pending
         /\ Len(row["amount"]) = 2 /\ row["amount"][1] = "over"
         /\ IsNumber(row["amount"][2])
         /\ OtherwiseValid(i)) =>
            /\ res[i].state = "trade"
            /\ res[i].amount_lo = coerce_int(row["amount"][2])

\* a cell holds an excluded phrase, or an excluded single word as a whole word
CellExcluded(cell) ==
    \E token \in EXCLUDE_TOKENS :
        \E i \in 1..Len(cell) :
            /\ i + Len(token) - 1 <= Len(cell)
            /\ \A j \in 1..Len(token) : cell[i + j - 1] = token[j]

\* C17: a row in which some cell, whatever its column, holds an excluded phrase
\* or an excluded whole word never yields a Trade, also when its date, action,
\* amount and asset are valid.
C17_ExcludedRowDropped ==
    \A i \in 1..2 :
        (res[i] # Pending /\ \E c \in DOMAIN row : CellExcluded(row[c])) =>
            res[i] = Dropped

\* C17 witness: a row with a valid date, action, amount and asset (its asset
\* parses to a company and a ticker) was dropped for the excluded word in its
\* asset cell.
C17_Witness ==
    /\ res[1] = Dropped
    /\ CellExcluded(row["asset"])
    /\ parse_date(first_cell(row, DATE_COLUMNS)) # NoneDate
    /\ parse_action(row["type"], hash_order[1]) # ""
    /\ is_amount_range(row["amount"])
    /\ parse_asset(row["asset"]) # <<"", "">>

(***************************************************************************)
(* Properties of parse_date.                                               *)
(***************************************************************************)
\* C19: a date text M/D/YY or M-D-YY with a two-digit year parses to the year
\* 2000 + YY when YY < 50 and to 1900 + YY otherwise, with month M and day D.
C19_TwoDigitYearPivot ==
    (/\ parsed.state = "returned"
     /\ date_text.ydigits = 2
     /\ 1 <= date_text.a /\ date_text.a <= 12
     /\ 1 <= date_text.b /\ date_text.b <= 28) =>
        parsed.date = <<IF date_text.year < 50 THEN 2000 + date_text.year
                        ELSE 1900 + date_text.year,
                        date_text.a, date_text.b>>

\* the actions parse_action can return
CanonicalActions == {"Buy", "Sell", "Exchange"} \cup {capitalize(w) : w \in TRADE_ACTIONS}

RecognizedDateColumns == {DATE_COLUMNS[k] : k \in DOMAIN DATE_COLUMNS}

\* C18: every step is a hard gate: a Trade is returned only for a row with no
\* excluded token, a parseable date in a recognized date column, a canonical
\* action, a valid amount and a ticker or a company; and a row with no
\* recognized date column is dropped whatever else it holds.
C18_HardGates ==
    \A i \in 1..2 :
        /\ res[i].state = "trade" =>
              /\ \A c \in DOMAIN row : ~CellExcluded(row[c])
              /\ \E c \in DOMAIN row \cap RecognizedDateColumns :
                     parse_date(row[c]) # NoneDate
              /\ res[i].date # NoneDate
              /\ res[i].action \in CanonicalActions
              /\ is_amount_range(row["amount"])
              /\ (res[i].ticker # "" \/ res[i].company # "")
        /\ (res[i] # Pending /\ DOMAIN row \cap RecognizedDateColumns = {}) =>
              res[i] = Dropped

\* C18 witness: a row with a date in an unrecognized column and a valid
\* action, amount and asset was dropped.
C18_Witness ==
    /\ res[1] = Dropped
    /\ "notification date" \in DOMAIN row
    /\ parse_date(row["notification date"]) # NoneDate
    /\ ~has_excluded_token(row_values(row))
    /\ parse_action(row["type"], hash_order[1]) # ""
    /\ is_amount_range(row["amount"])
    /\ parse_asset(row["asset"]) # <<"", "">>

HoldsKeyword(q, family) ==
    \E keyword \in family :
        \E i \in 1..Len(q) :
            /\ i + Len(keyword) - 1 <= Len(q)
            /\ \A j \in 1..Len(keyword) : lower(q[i + j - 1]) = keyword[j]

\* C21: the result is buy when the text holds a buy-family keyword, otherwise
\* sell when it holds a sell-family keyword, otherwise other, also for an
\* empty text; a text with keywords of both families gives buy.
C21_BuySellOther ==
    canonical # "pending" =>
        canonical = (IF HoldsKeyword(raw_value, BUY_KEYWORDS) THEN "buy"
                     ELSE IF HoldsKeyword(raw_value, SELL_KEYWORDS) THEN "sell"
                     ELSE "other")

\* C21 witness: a text with a sell keyword before a buy keyword gave buy.
C21_Witness ==
    /\ canonical = "buy"
    /\ HoldsKeyword(raw_value, SELL_KEYWORDS)
    /\ HoldsKeyword(raw_value, BUY_KEYWORDS)
    /\ raw_value[1] = "S"

(***************************************************************************)
(* Properties of collect_company_records.                                  *)
(***************************************************************************)
CompaniesReturned == ev_idx = 0

\* the events of a ticker that carry a name, by position
Named(ticker) ==
    {k \in DOMAIN events : events[k].ticker = ticker /\ events[k].company_name # ""}

FirstName(ticker) ==
    IF Named(ticker) = {} THEN ""
    ELSE events[CHOOSE k \in Named(ticker) : \A j \in Named(ticker) : k <= j].company_name

\* C22: the result holds exactly one record per distinct non-empty ticker of
\* the events and none for an event without a ticker, and a record's name is
\* the first non-empty name among its ticker's events (none if there is none).
C22_OneRecordPerTicker ==
    CompaniesReturned =>
        /\ {company_rows[k].ticker : k \in DOMAIN company_rows} =
               {events[k].ticker : k \in DOMAIN events} \ {""}
        /\ \A j, k \in DOMAIN company_rows :
               company_rows[j].ticker = company_rows[k].ticker => j = k
        /\ \A k \in DOMAIN company_rows :
               company_rows[k].name = FirstName(company_rows[k].ticker)

\* C22 witness: a ticker whose first event had no name, whose second brought
\* one and whose third brought another kept the second event's name.
C22_Witness ==
    /\ CompaniesReturned
    /\ Len(events) = 3
    /\ \A k \in 1..3 : events[k].ticker = "AAPL"
    /\ events[1].company_name = ""
    /\ events[2].company_name = "Apple"
    /\ events[3].company_name = "Apple Inc."
    /\ company_rows = <<CompanyRecord("AAPL", "Apple")>>

(***************************************************************************)
(* Properties of filter_filings.                                           *)
(***************************************************************************)
\* the filing satisfies every supplied predicate; an absent or empty one
\* matches every filing
Satisfies(f, c) ==
    /\ c.since = NoDate \/ f.filing_date >= c.since
    /\ c.until = NoDate \/ f.filing_date <= c.until
    /\ \/ ~c.names.given
       \/ c.names.items = <<>>
       \/ \E k \in DOMAIN c.names.items :
              /\ str_lower(c.names.items[k][1]) = str_lower(f.last)
              /\ str_lower(c.names.items[k][2]) = str_lower(f.first)
    /\ \/ ~c.filing_types.given
       \/ c.filing_types.items = <<>>
       \/ \E k \in DOMAIN c.filing_types.items :
              str_upper(c.filing_types.items[k]) = str_upper(f.filing_type)
    /\ \/ ~c.states.given
       \/ c.states.items = <<>>
       \/ \E k \in DOMAIN c.states.items : c.states.items[k] = f.state_dst

SatisfiesCriteria(f) == Satisfies(f, criteria)

\* C23: filter_filings returns, in input order, exactly the filings that
\* satisfy all supplied predicates together, and leaves its input as it was.
C23_FilterConjunctive ==
    (fl_idx = 0 /\ index0 # <<>>) =>
        /\ filtered = SelectSeq(index0, SatisfiesCriteria)
        /\ index = index0

\* C23 witness: of two filings the one whose name and type match in another
\* case was kept and the other one was not.
C23_Witness ==
    /\ fl_idx = 0
    /\ Len(index0) = 2
    /\ Len(filtered) = 1
    /\ Truthy(criteria.names) /\ Truthy(criteria.filing_types)
    /\ filtered[1].last \notin {criteria.names.items[k][1] : k \in DOMAIN criteria.names.items}
    /\ filtered[1].filing_type \notin
           {criteria.filing_types.items[k] : k \in DOMAIN criteria.filing_types.items}

(***************************************************************************)
(* Properties of classify_asset_type.                                      *)
(***************************************************************************)
\* the rules in their order: the type a rule gives and whether it matches
RuleTypes == <<"OPTION", "CRYPTO", "MUTUAL_FUND", "BOND", "ETF", "STOCK", "OTHER">>

RuleMatches(k, a) ==
    LET text == to_lower(a.asset_str)
        tick == to_upper(a.ticker)
    IN CASE k = 1 -> any_in(OPTION_KEYWORDS, text) \/ option_pattern(a.asset_str)
         [] k = 2 -> tick \in CRYPTO_SYMBOLS \/ any_in(CRYPTO_KEYWORDS, text)
         [] k = 3 -> any_in(FUND_KEYWORDS, text)
         [] k = 4 -> any_in(BOND_KEYWORDS, text)
         [] k = 5 -> any_in(ETF_PATTERNS, text) \/ (Len(tick) = 4 /\ tick[4] = "F")
         [] k = 6 -> a.ticker # <<>>
         [] k = 7 -> TRUE

\* C24: the classification is the type of the first rule that matches, in the
\* order OPTION, CRYPTO, MUTUAL_FUND, BOND, ETF, STOCK, OTHER; a later rule
\* never overrides an earlier matching one.
C24_FirstRuleWins ==
    asset_type # "pending" =>
        \E k \in DOMAIN RuleTypes :
            /\ RuleMatches(k, asset_args)
            /\ \A j \in 1..(k - 1) : ~RuleMatches(j, asset_args)
            /\ asset_type = RuleTypes[k]

\* C24 witness: an asset whose text also matches the bond and the ETF rule and
\* whose ticker is a crypto symbol was classified CRYPTO.
C24_Witness ==
    /\ asset_type = "CRYPTO"
    /\ RuleMatches(4, asset_args)
    /\ RuleMatches(5, asset_args)
    /\ RuleMatches(6, asset_args)

(***************************************************************************)
(* Properties of parse_pdf_for_trades.                                     *)
(***************************************************************************)
\* the fixed order of the strategies for a document type
StrategyOrder(t) ==
    IF t = "FD" THEN <<"transactions_region", "pdfplumber", "camelot">>
    ELSE <<"pdfplumber", "camelot">>

\* the positions, in the order, of the strategies that return a row
Productive(t) == {k \in DOMAIN StrategyOrder(t) : extracted[StrategyOrder(t)[k]] # <<>>}

FirstProductive(t) == CHOOSE k \in Productive(t) : \A j \in Productive(t) : k <= j

\* C25: the strategies are invoked in the fixed order of the document type
\* (FD: transaction pages, primary, secondary; PTR and UNKNOWN: primary,
\* secondary), a strategy only after every earlier one returned zero rows,
\* and the rows handed to the normalizer are exactly the rows of the first
\* strategy that returned any, numbered from 0 in their order.
C25_StrategyOrder ==
    LET order == StrategyOrder(pdf_type)
    IN /\ Len(invoked) <= Len(order)
       /\ \A k \in DOMAIN invoked :
              /\ invoked[k] = order[k]
              /\ \A j \in 1..(k - 1) : extracted[order[j]] = <<>>
       /\ parse_pc = "returned" =>
              IF Productive(pdf_type) = {}
              THEN fed = <<>> /\ invoked = order
              ELSE LET s == order[FirstProductive(pdf_type)]
                   IN /\ Len(invoked) = FirstProductive(pdf_type)
                      /\ Len(fed) = Len(extracted[s])
                      /\ \A i \in DOMAIN fed :
                             fed[i] = [line_no |-> i - 1, row |-> extracted[s][i]]

\* C25 witness: for an FD document the transaction pages gave no row, the
\* primary strategy gave rows and the secondary one, which also has rows,
\* was not invoked; the primary's rows were normalized.
C25_Witness ==
    /\ parse_pc = "returned"
    /\ pdf_type = "FD"
    /\ invoked = <<"transactions_region", "pdfplumber">>
    /\ extracted["camelot"] # <<>>
    /\ Len(fed) = MaxRows
    /\ \A i \in DOMAIN fed : fed[i].row.by = "pdfplumber"

(***************************************************************************)
(* Properties of classify_pdf.                                             *)
(***************************************************************************)
\* the two workers classify the same document id with the same bytes
SameDocument == cl_doc[1] = cl_doc[2] /\ cl_bytes[1] = cl_bytes[2]

ReturnsAt == {i \in DOMAIN cl_log : cl_log[i].kind = "return"}

BothReturned == \A w \in ClassifyWorkers : \E i \in ReturnsAt : cl_log[i].worker = w

\* every call so far returned the same classification
SameClassification == \A i, j \in ReturnsAt : cl_log[i].value = cl_log[j].value

\* once both workers have returned, the cache maps the id to what they returned
CacheHoldsResult ==
    BothReturned =>
        \A i \in ReturnsAt : classification_cache[cl_doc[1]] = cl_log[i].value

\* after an entry is written, no write changes it and every call that starts
\* later returns it
CachedEntryStable ==
    \A i \in DOMAIN cl_log :
        cl_log[i].kind = "store" =>
            /\ \A j \in (i + 1)..Len(cl_log) :
                   cl_log[j].kind = "store" => cl_log[j].value = cl_log[i].value
            /\ \A j \in (i + 1)..Len(cl_log) :
                   cl_log[j].kind = "call" =>
                       \A k \in (j + 1)..Len(cl_log) :
                           (cl_log[k].kind = "return" /\ cl_log[k].worker = cl_log[j].worker)
                               => cl_log[k].value = cl_log[i].value

\* C26: when two workers call classify_pdf for the same document id with the
\* same bytes, under every interleaving both calls return the same
\* classification, the cache afterwards maps the id to that classification,
\* and an entry once cached is returned unchanged by every later call.
C26_CacheRaceBenign ==
    SameDocument => (SameClassification /\ CacheHoldsResult /\ CachedEntryStable)

\* the parts of C26 that do not say what the cache holds afterwards
C26_SameResultAndStableEntry ==
    SameDocument => (SameClassification /\ CachedEntryStable)

(***************************************************************************)
(* Properties of the Senate scraper.                                       *)
(***************************************************************************)
RECURSIVE slept(_, _)
\* the seconds slept between positions i and j of net_log
slept(i, j) ==
    IF i + 1 >= j THEN 0
    ELSE net_log[i + 1].secs + slept(i + 1, j)

\* C27: in the Senate scraping paths every two consecutive network requests
\* are separated by a delay of at least RATE_LIMIT_DELAY seconds, also after
\* a download that failed.
C27_RateLimited ==
    \A i, j \in DOMAIN net_log :
        (/\ i < j
         /\ net_log[i].kind = "request" /\ net_log[j].kind = "request"
         /\ \A k \in (i + 1)..(j - 1) : net_log[k].kind # "request")
            => slept(i, j) >= RATE_LIMIT_DELAY

\* the requests of one search are rate limited
C27_SearchRateLimited ==
    \A i \in DOMAIN net_log :
        (i > 1 /\ net_log[i].kind = "request" /\ net_log[i].what \in {"search", "page"})
            => net_log[i - 1].kind = "sleep"

(***************************************************************************)
(* Properties of a House row's way to its event.                           *)
(***************************************************************************)
PurchaseFamily ==
    {<<"p">>, <<"b">>, <<"buy">>, <<"purchase">>, <<"acquire">>, <<"acquisition">>}

SaleFamily == {<<"s">>, <<"sell">>, <<"sale">>, <<"dispose">>, <<"disposition">>}

OtherFamily == {<<"exchange">>, <<"exercise">>, <<"assignment">>, <<"expiration">>}

\* C28: for every row the House normalizer accepts, the event built from its
\* Trade has transaction_type buy when the action cell is a purchase-family
\* value (P, B, buy, purchase, acquire, acquisition), sell when it is a
\* sale-family value (S, sell, sale, dispose, disposition) and other for
\* exchange, exercise, assignment and expiration.
C28_ActionEndToEnd ==
    house_event.state = "event" =>
        /\ house_row["type"] \in PurchaseFamily => house_event.transaction_type = "buy"
        /\ house_row["type"] \in SaleFamily => house_event.transaction_type = "sell"
        /\ house_row["type"] \in OtherFamily => house_event.transaction_type = "other"

\* C28 witness: a row whose action cell is "disposition" was accepted and its
\* event is a sell.
C28_Witness ==
    /\ house_event.state = "event"
    /\ house_row["type"] = <<"disposition">>
    /\ house_trade.action = "Disposition"
    /\ house_event.transaction_type = "sell"

(***************************************************************************)
(* Identity of the trades of a batch.                                      *)
(***************************************************************************)
\* the key row_uid hashes: source|filing_id|line_no|ticker|date|amount|action
UidKey(t) == t.event_uid.sha256_16

\* C29: the filings of a batch having pairwise distinct document ids, any
\* two distinct trades returned by process_filing_batch have different UID
\* keys: rows of one filing differ in line_no, rows of different filings in
\* filing_id; line_no is the row's index among all extracted rows, the
\* dropped ones included.
C29_DistinctUidKeys ==
    /\ \A i, j \in DOMAIN all_trades :
           i # j =>
               /\ UidKey(all_trades[i]) # UidKey(all_trades[j])
               /\ \/ all_trades[i].filing_id # all_trades[j].filing_id
                  \/ all_trades[i].line_no # all_trades[j].line_no
    /\ \A i \in DOMAIN all_trades :
           LET t == all_trades[i]
               rows == ExtractedOf(t.filing_id)
           IN /\ UidKey(t)[2] = t.filing_id /\ UidKey(t)[3] = t.line_no
              /\ t.line_no + 1 \in DOMAIN rows
              /\ rows[t.line_no + 1] = TradeRow(t.date)

\* C29 witness: the returned batch holds two trades of one filing that
\* differ in nothing but line_no, one of them after a dropped row, and two
\* trades of different filings that differ in nothing but filing_id.
C29_Witness ==
    /\ batch_pc = "returned"
    /\ \E i, j \in DOMAIN all_trades :
           /\ all_trades[i].filing_id = all_trades[j].filing_id
           /\ all_trades[i].date = all_trades[j].date
           /\ all_trades[i].line_no = 0
           /\ all_trades[j].line_no = 3
    /\ \E i, j \in DOMAIN all_trades :
           /\ all_trades[i].filing_id # all_trades[j].filing_id
           /\ all_trades[i].date = all_trades[j].date
           /\ all_trades[i].line_no = all_trades[j].line_no

(***************************************************************************)
(* The requests of one filing.                                             *)
(***************************************************************************)
\* the requests of process_single_filing so far
Requests == SelectSeq(log, LAMBDA e : e.kind = "req")

Answered200(e) == e.status \in {"ok", "ok_empty"}

\* the download_pdf call c came back from a request with the response's content
ReturnedContent(c) ==
    Len(ReqsOf(c)) >= 1 /\ Answered200(ReqsOf(c)[Len(ReqsOf(c))])

\* at most 2 * (MAX_RETRIES + 1) requests, all of them in the two calls
RequestsBounded ==
    /\ Len(Requests) <= 2 * (MAX_RETRIES + 1)
    /\ \A i \in DOMAIN log : log[i].call \in Calls

\* a call's request that was answered with content, or that failed with no
\* retry left, is the call's last
NoRequestAfterEnd ==
    \A c \in Calls :
        \A i \in DOMAIN ReqsOf(c) :
            (\/ Answered200(ReqsOf(c)[i])
             \/ ReqsOf(c)[i].retry = MAX_RETRIES) => i = Len(ReqsOf(c))

\* C30: process_single_filing issues at most 2 * (MAX_RETRIES + 1) = 8
\* requests over its download of the primary URL and its fallback download
\* of the alternate URL, issues no further request once a download call has
\* returned bytes, and retries nothing after the retries are exhausted.
C30_RequestsPerFiling ==
    /\ RequestsBounded
    /\ NoRequestAfterEnd
    /\ ReturnedContent(1) => ReqsOf(2) = <<>>

\* C30 without empty content: no request follows a call that returned a
\* non-empty body
C30_BoundedAndNoRequestAfterBody ==
    /\ RequestsBounded
    /\ NoRequestAfterEnd
    /\ (ReturnedContent(1) /\ ReqsOf(1)[Len(ReqsOf(1))].status = "ok")
           => ReqsOf(2) = <<>>

\* both calls of a filing used every retry
AllRequestsUsed == Len(Requests) = 2 * (MAX_RETRIES + 1) /\ pc = "done"

====
